---- MODULE Spec2Model ----
(***************************************************************************)
(* Verification model of the RemoteView client ingest pipeline:            *)
(*   - DecompressionPool  (worker pool with drop-oldest back-pressure)     *)
(*   - AdaptiveQualityController (hysteresis control loop)                 *)
(*   - TileFrameParser / TileDecoder (binary tile frame validation)        *)
(*   - DecompressionWorker (the message handler of one pool worker)        *)
(* The components share no state; each has its own next-state relation    *)
(* and specification over the common variable tuple.                       *)
(***************************************************************************)
EXTENDS Integers, Sequences, FiniteSets, TLC

\* ------------------------------------------------------------------ bounds
\* Constructor arguments of DecompressionPool (defaults 4 and 50) and the
\* number of compressed tasks submitted in a run.
PoolSize == 2
MaxQueueSize == 2
MaxTasks == 5
\* Number of request messages posted to one decompression worker in a run.
MaxRequests == 3

VARIABLES
    \* DecompressionPool fields
    workers, availableWorkers, busyWorkers, taskQueue, pendingTasks,
    nextTaskId, stats,
    \* environment of the pool: requests posted to each worker and not yet
    \* answered, the workers that raised an error event, and every call of a
    \* task's resolve/reject, per task id, in order
    inbox, faulted, outcomes,
    \* AdaptiveQualityController fields
    metrics, degradationLevel, steadyStateFrames, currentSettings,
    baselineSettings, isMonitoring,
    \* what the last controller operation sent through sendMessage and passed
    \* to the registered quality-change callback, in order
    emitted, notified,
    \* number of consecutive ticks, up to and including the last one, whose
    \* target level was better than the level then in force (observer only)
    goodRun,
    \* number of ticks since the degradation level last changed, counted up to
    \* the steady-state threshold (observer only)
    quietTicks,
    \* the quality message most recently given to sendMessage, over the whole
    \* run (observer only)
    lastSent,
    \* TileFrameParser fields, the buffer last parsed, what parse returned for
    \* it and what TileDecoder.decode returned
    frameCount, droppedFrames, lastError, buffer, result, decoded,
    \* the frames the data channel has still to deliver, in order
    incoming,
    \* one decompression worker: its initialized flag, the request messages
    \* delivered to self.onmessage and not yet handled, the requests handled,
    \* the responses given to self.postMessage, and the number of exceptions
    \* that left self.onmessage uncaught
    initialized, mailbox, handled, posted, uncaught,
    \* the operation the last step performed, with its argument
    lastOp

poolVars == <<workers, availableWorkers, busyWorkers, taskQueue, pendingTasks,
              nextTaskId, stats, inbox, faulted, outcomes>>

controllerVars == <<metrics, degradationLevel, steadyStateFrames, currentSettings,
                    baselineSettings, isMonitoring>>

qualityVars == <<controllerVars, emitted, notified, goodRun, quietTicks,
                 lastSent>>

parserVars == <<frameCount, droppedFrames, lastError, buffer, result, decoded,
                incoming>>

workerVars == <<initialized, mailbox, handled, posted, uncaught>>

vars == <<poolVars, qualityVars, parserVars, workerVars, lastOp>>

Workers == 1..PoolSize
TaskIds == 1..MaxTasks

\* ------------------------------------------------------------- sequences
SeqToSet(s) == {s[i] : i \in 1..Len(s)}

\* Array.prototype.shift on a non-empty array: the array without its head.
Shift(s) == SubSeq(s, 2, Len(s))

\* Array.prototype.pop: the array without its last element.
Pop(s) == SubSeq(s, 1, Len(s) - 1)

\* --------------------------------------------------------- task outcomes
\* The ways a task's promise is settled by the pool.
Resolved == "resolved"
DecompressionFailed == "decompression_failed"
BackPressure == "dropped_backpressure"
WorkerFault == "worker_error"
Disposed == "disposed"

\* task.resolve / task.reject called for every task id in ids.
Settle(out, ids, kind) ==
    [t \in TaskIds |-> IF t \in ids THEN Append(out[t], kind) ELSE out[t]]

\* ------------------------------------------------------ DecompressionPool
InitPool ==
    /\ workers = Workers
    /\ availableWorkers = [i \in 1..PoolSize |-> i]
    /\ busyWorkers = {}
    /\ taskQueue = <<>>
    /\ pendingTasks = {}
    /\ nextTaskId = 1
    /\ stats = [totalTasks |-> 0, completedTasks |-> 0, queueLength |-> 0,
                activeWorkers |-> 0, droppedTasks |-> 0]
    /\ inbox = [w \in Workers |-> <<>>]
    /\ faulted = {}
    /\ outcomes = [t \in TaskIds |-> <<>>]

\* updateStats(): refresh the derived counters of a stats record.
updateStats(st, queue, busy) ==
    [st EXCEPT !.queueLength = Len(queue), !.activeWorkers = Cardinality(busy)]

\* processNextTask() as a function of the state it starts from: a record of
\* the fields it may change.  q, avail, busy, pend, box, st are the values
\* the caller has already produced.
processNextTask(q, avail, busy, pend, box, st) ==
    IF Len(q) = 0 \/ Len(avail) = 0
    THEN [taskQueue |-> q, availableWorkers |-> avail, busyWorkers |-> busy,
          pendingTasks |-> pend, inbox |-> box, stats |-> st]
    ELSE LET task == Head(q)
             worker == Head(avail)
             q2 == Shift(q)
             busy2 == busy \cup {worker}
         IN  [taskQueue |-> q2,
              availableWorkers |-> Shift(avail),
              busyWorkers |-> busy2,
              pendingTasks |-> pend \cup {task},
              inbox |-> [box EXCEPT ![worker] = Append(@, task)],
              stats |-> updateStats(st, q2, busy2)]

\* CompressionType enum of src/types (None = 0, LZ4 = 1, Zstd = 2).
CompressionNone == 0
CompressionLZ4 == 1
CompressionZstd == 2
CompressionTypes == {CompressionNone, CompressionLZ4, CompressionZstd}

\* decompress() with the back-pressure branch dropping the newest queued task
\* (pop) instead of the oldest (shift).
decompressDropNewest(compression) ==
    /\ lastOp' = [op |-> "decompress", arg |-> compression]
    /\ IF compression = CompressionNone
       THEN UNCHANGED poolVars
       ELSE /\ nextTaskId <= MaxTasks
            /\ LET full == Len(taskQueue) >= MaxQueueSize /\ Len(taskQueue) > 0
                   q1 == IF full THEN Pop(taskQueue) ELSE taskQueue
                   out1 == IF full
                           THEN Settle(outcomes, {taskQueue[Len(taskQueue)]}, BackPressure)
                           ELSE outcomes
                   st1 == [stats EXCEPT
                             !.droppedTasks = IF full THEN @ + 1 ELSE @,
                             !.totalTasks = @ + 1]
                   r == processNextTask(Append(q1, nextTaskId), availableWorkers,
                                        busyWorkers, pendingTasks, inbox, st1)
               IN  /\ nextTaskId' = nextTaskId + 1
                   /\ outcomes' = out1
                   /\ taskQueue' = r.taskQueue
                   /\ availableWorkers' = r.availableWorkers
                   /\ busyWorkers' = r.busyWorkers
                   /\ pendingTasks' = r.pendingTasks
                   /\ inbox' = r.inbox
                   /\ stats' = r.stats
                   /\ UNCHANGED <<workers, faulted>>

\* decompress() whose back-pressure branch evicts the head of the queue but
\* does not count it in droppedTasks.
decompressNoDropCount(compression) ==
    /\ lastOp' = [op |-> "decompress", arg |-> compression]
    /\ IF compression = CompressionNone
       THEN UNCHANGED poolVars
       ELSE /\ nextTaskId <= MaxTasks
            /\ LET full == Len(taskQueue) >= MaxQueueSize /\ Len(taskQueue) > 0
                   q1 == IF full THEN Shift(taskQueue) ELSE taskQueue
                   out1 == IF full
                           THEN Settle(outcomes, {Head(taskQueue)}, BackPressure)
                           ELSE outcomes
                   st1 == [stats EXCEPT !.totalTasks = @ + 1]
                   r == processNextTask(Append(q1, nextTaskId), availableWorkers,
                                        busyWorkers, pendingTasks, inbox, st1)
               IN  /\ nextTaskId' = nextTaskId + 1
                   /\ outcomes' = out1
                   /\ taskQueue' = r.taskQueue
                   /\ availableWorkers' = r.availableWorkers
                   /\ busyWorkers' = r.busyWorkers
                   /\ pendingTasks' = r.pendingTasks
                   /\ inbox' = r.inbox
                   /\ stats' = r.stats
                   /\ UNCHANGED <<workers, faulted>>

\* decompress() without the back-pressure branch: nothing is evicted.
decompressNoEvict(compression) ==
    /\ lastOp' = [op |-> "decompress", arg |-> compression]
    /\ IF compression = CompressionNone
       THEN UNCHANGED poolVars
       ELSE /\ nextTaskId <= MaxTasks
            /\ LET st1 == [stats EXCEPT !.totalTasks = @ + 1]
                   r == processNextTask(Append(taskQueue, nextTaskId),
                                        availableWorkers, busyWorkers,
                                        pendingTasks, inbox, st1)
               IN  /\ nextTaskId' = nextTaskId + 1
                   /\ taskQueue' = r.taskQueue
                   /\ availableWorkers' = r.availableWorkers
                   /\ busyWorkers' = r.busyWorkers
                   /\ pendingTasks' = r.pendingTasks
                   /\ inbox' = r.inbox
                   /\ stats' = r.stats
                   /\ UNCHANGED <<workers, faulted, outcomes>>

\* decompress(data, compression, uncompressedSize).  An uncompressed payload
\* is returned at once and touches no pool state.  Otherwise, at capacity the
\* head of the queue is shifted out and rejected, then the new task gets the
\* next id, is counted, pushed and processNextTask() runs.
decompress(compression) ==
    /\ lastOp' = [op |-> "decompress", arg |-> compression]
    /\ IF compression = CompressionNone
       THEN UNCHANGED poolVars
       ELSE /\ nextTaskId <= MaxTasks
            /\ LET full == Len(taskQueue) >= MaxQueueSize /\ Len(taskQueue) > 0
                   q1 == IF full THEN Shift(taskQueue) ELSE taskQueue
                   out1 == IF full
                           THEN Settle(outcomes, {Head(taskQueue)}, BackPressure)
                           ELSE outcomes
                   st1 == [stats EXCEPT
                             !.droppedTasks = IF full THEN @ + 1 ELSE @,
                             !.totalTasks = @ + 1]
                   r == processNextTask(Append(q1, nextTaskId), availableWorkers,
                                        busyWorkers, pendingTasks, inbox, st1)
               IN  /\ nextTaskId' = nextTaskId + 1
                   /\ outcomes' = out1
                   /\ taskQueue' = r.taskQueue
                   /\ availableWorkers' = r.availableWorkers
                   /\ busyWorkers' = r.busyWorkers
                   /\ pendingTasks' = r.pendingTasks
                   /\ inbox' = r.inbox
                   /\ stats' = r.stats
                   /\ UNCHANGED <<workers, faulted>>

\* handleWorkerMessage() without the trailing processNextTask() call.
handleWorkerMessageNoDispatch(w, success) ==
    /\ w \in workers
    /\ inbox[w] # <<>>
    /\ lastOp' = [op |-> "handleWorkerMessage", arg |-> w]
    /\ LET id == Head(inbox[w])
           box1 == [inbox EXCEPT ![w] = Tail(@)]
       IN  IF id \notin pendingTasks
           THEN /\ inbox' = box1
                /\ UNCHANGED <<workers, availableWorkers, busyWorkers, taskQueue,
                               pendingTasks, nextTaskId, stats, faulted, outcomes>>
           ELSE /\ outcomes' = Settle(outcomes, {id},
                                      IF success THEN Resolved
                                      ELSE DecompressionFailed)
                /\ availableWorkers' = Append(availableWorkers, w)
                /\ busyWorkers' = busyWorkers \ {w}
                /\ pendingTasks' = pendingTasks \ {id}
                /\ inbox' = box1
                /\ stats' = [stats EXCEPT !.completedTasks = @ + 1]
                /\ UNCHANGED <<workers, taskQueue, nextTaskId, faulted>>

\* handleWorkerMessage() without the completedTasks++ statement.
handleWorkerMessageNoCount(w, success) ==
    /\ w \in workers
    /\ inbox[w] # <<>>
    /\ lastOp' = [op |-> "handleWorkerMessage", arg |-> w]
    /\ LET id == Head(inbox[w])
           box1 == [inbox EXCEPT ![w] = Tail(@)]
       IN  IF id \notin pendingTasks
           THEN /\ inbox' = box1
                /\ UNCHANGED <<workers, availableWorkers, busyWorkers, taskQueue,
                               pendingTasks, nextTaskId, stats, faulted, outcomes>>
           ELSE LET r == processNextTask(taskQueue, Append(availableWorkers, w),
                                         busyWorkers \ {w}, pendingTasks \ {id},
                                         box1, stats)
                IN  /\ outcomes' = Settle(outcomes, {id},
                                          IF success THEN Resolved
                                          ELSE DecompressionFailed)
                    /\ taskQueue' = r.taskQueue
                    /\ availableWorkers' = r.availableWorkers
                    /\ busyWorkers' = r.busyWorkers
                    /\ pendingTasks' = r.pendingTasks
                    /\ inbox' = r.inbox
                    /\ stats' = r.stats
                    /\ UNCHANGED <<workers, nextTaskId, faulted>>

\* handleWorkerMessage(event): worker w answers the oldest request posted to
\* it; success is the response's success flag.  A response for a task that is
\* no longer pending is ignored and the handler returns early.
handleWorkerMessage(w, success) ==
    /\ w \in workers
    /\ inbox[w] # <<>>
    /\ lastOp' = [op |-> "handleWorkerMessage", arg |-> w]
    /\ LET id == Head(inbox[w])
           box1 == [inbox EXCEPT ![w] = Tail(@)]
       IN  IF id \notin pendingTasks
           THEN /\ inbox' = box1
                /\ UNCHANGED <<workers, availableWorkers, busyWorkers, taskQueue,
                               pendingTasks, nextTaskId, stats, faulted, outcomes>>
           ELSE LET st1 == [stats EXCEPT !.completedTasks = @ + 1]
                    r == processNextTask(taskQueue, Append(availableWorkers, w),
                                         busyWorkers \ {w}, pendingTasks \ {id},
                                         box1, st1)
                IN  /\ outcomes' = Settle(outcomes, {id},
                                          IF success THEN Resolved
                                          ELSE DecompressionFailed)
                    /\ taskQueue' = r.taskQueue
                    /\ availableWorkers' = r.availableWorkers
                    /\ busyWorkers' = r.busyWorkers
                    /\ pendingTasks' = r.pendingTasks
                    /\ inbox' = r.inbox
                    /\ stats' = r.stats
                    /\ UNCHANGED <<workers, nextTaskId, faulted>>

\* handleWorkerError() that rejects the pending tasks but leaves them in the
\* pending map.
handleWorkerErrorNoDelete(w) ==
    /\ w \in workers
    /\ lastOp' = [op |-> "handleWorkerError", arg |-> w]
    /\ faulted' = faulted \cup {w}
    /\ IF w \in busyWorkers
       THEN outcomes' = Settle(outcomes, pendingTasks, WorkerFault)
       ELSE UNCHANGED outcomes
    /\ busyWorkers' = busyWorkers \ {w}
    /\ UNCHANGED <<workers, availableWorkers, taskQueue, pendingTasks,
                   nextTaskId, stats, inbox>>

\* handleWorkerError(event): the error event of worker w.  The loop visits
\* every entry of pendingTasks and tests busyWorkers.has(worker), which does
\* not depend on the entry: when w is busy every pending task is deleted and
\* rejected, when it is not none is.  w leaves busyWorkers and is not pushed
\* on availableWorkers (nor removed from it).
handleWorkerError(w) ==
    /\ w \in workers
    /\ lastOp' = [op |-> "handleWorkerError", arg |-> w]
    /\ faulted' = faulted \cup {w}
    /\ IF w \in busyWorkers
       THEN /\ outcomes' = Settle(outcomes, pendingTasks, WorkerFault)
            /\ pendingTasks' = {}
       ELSE UNCHANGED <<outcomes, pendingTasks>>
    /\ busyWorkers' = busyWorkers \ {w}
    /\ UNCHANGED <<workers, availableWorkers, taskQueue, nextTaskId, stats, inbox>>

\* dispose() without the loop over taskQueue: queued tasks are discarded
\* without being rejected.
disposeSkipQueued ==
    /\ lastOp' = [op |-> "dispose", arg |-> 0]
    /\ outcomes' = Settle(outcomes, pendingTasks, Disposed)
    /\ workers' = {}
    /\ availableWorkers' = <<>>
    /\ busyWorkers' = {}
    /\ taskQueue' = <<>>
    /\ pendingTasks' = {}
    /\ inbox' = [w \in Workers |-> <<>>]
    /\ UNCHANGED <<nextTaskId, stats, faulted>>

\* dispose() that rejects the queued tasks but leaves them in taskQueue.
disposeKeepQueue ==
    /\ lastOp' = [op |-> "dispose", arg |-> 0]
    /\ outcomes' = Settle(outcomes, pendingTasks \cup SeqToSet(taskQueue), Disposed)
    /\ workers' = {}
    /\ availableWorkers' = <<>>
    /\ busyWorkers' = {}
    /\ pendingTasks' = {}
    /\ inbox' = [w \in Workers |-> <<>>]
    /\ UNCHANGED <<taskQueue, nextTaskId, stats, faulted>>

\* dispose(): every pending and every queued task is rejected, the workers
\* are terminated (their unanswered requests die with them) and all five
\* collections are emptied.  The counters are left as they are.
dispose ==
    /\ lastOp' = [op |-> "dispose", arg |-> 0]
    /\ outcomes' = Settle(outcomes, pendingTasks \cup SeqToSet(taskQueue), Disposed)
    /\ workers' = {}
    /\ availableWorkers' = <<>>
    /\ busyWorkers' = {}
    /\ taskQueue' = <<>>
    /\ pendingTasks' = {}
    /\ inbox' = [w \in Workers |-> <<>>]
    /\ UNCHANGED <<nextTaskId, stats, faulted>>

\* getQueuePressure(): taskQueue.length / maxQueueSize, as the fraction.
getQueuePressure == [num |-> Len(taskQueue), den |-> MaxQueueSize]

\* shouldBackOff(): getQueuePressure() > 0.8
shouldBackOff == 10 * getQueuePressure.num > 8 * getQueuePressure.den

Submit ==
    /\ \E c \in CompressionTypes : decompress(c)
    /\ UNCHANGED <<qualityVars, parserVars, workerVars>>

WorkerResponse ==
    /\ \E w \in Workers, success \in BOOLEAN : handleWorkerMessage(w, success)
    /\ UNCHANGED <<qualityVars, parserVars, workerVars>>

WorkerErrorEvent ==
    /\ \E w \in Workers : handleWorkerError(w)
    /\ UNCHANGED <<qualityVars, parserVars, workerVars>>

Dispose ==
    /\ dispose
    /\ UNCHANGED <<qualityVars, parserVars, workerVars>>

NextPool ==
    \/ Submit
    \/ WorkerResponse
    \/ WorkerErrorEvent
    \/ Dispose

\* Every worker that has not raised an error answers each request it was sent
\* (decompressionWorker.ts posts one response per request).
AnswerOf(w) ==
    /\ w \notin faulted
    /\ \E success \in BOOLEAN : handleWorkerMessage(w, success)
    /\ UNCHANGED <<qualityVars, parserVars, workerVars>>

\* ---------------------------------------------- AdaptiveQualityController
\* DataType enum of src/types (U8 = 0, U16 = 1, F32 = 2, MuLawU8 = 3).
DataTypeU8 == 0
DataTypeU16 == 1
DataTypeF32 == 2
DataTypeMuLawU8 == 3

\* metrics.avgFrameTime is held in hundredths of a millisecond, so that the
\* initial 16.67 ms is the integer 1667; the frame-time thresholds are scaled
\* by the same factor where they are compared.
FrameTimeUnit == 100

thresholds ==
    [fps |-> [good |-> 45, fair |-> 25, poor |-> 15],
     frameTime |-> [good |-> 22, fair |-> 40, poor |-> 67],
     droppedFrames |-> [acceptable |-> 5, concerning |-> 15, critical |-> 30],
     uploadLatency |-> [good |-> 50, fair |-> 150, poor |-> 300],
     steadyStateFrames |-> 60]

\* qualityLevels[level]; `reason` is a log text and is left out.
qualityLevels ==
    [level \in 0..3 |->
        CASE level = 0 -> [dtype |-> DataTypeF32, downsample |-> 1]
          [] level = 1 -> [dtype |-> DataTypeU16, downsample |-> 1]
          [] level = 2 -> [dtype |-> DataTypeU8, downsample |-> 1]
          [] level = 3 -> [dtype |-> DataTypeU8, downsample |-> 2]]

Min(a, b) == IF a < b THEN a ELSE b
Max(a, b) == IF a > b THEN a ELSE b

\* Before the first message is sent.
NoMessage == [type |-> "none", dtype |-> "none", downsample |-> 0]

InitQuality ==
    /\ currentSettings = [dtype |-> DataTypeF32, downsample |-> 1]
    /\ baselineSettings = [dtype |-> DataTypeF32, downsample |-> 1]
    /\ metrics = [fps |-> 60, avgFrameTime |-> 1667, droppedFrames |-> 0,
                  uploadLatency |-> 0]
    /\ degradationLevel = 0
    /\ steadyStateFrames = 0
    /\ isMonitoring = FALSE
    /\ emitted = <<>>
    /\ notified = <<>>
    /\ goodRun = 0
    /\ quietTicks = 0
    /\ lastSent = NoMessage

\* calculatePerformanceScore(): the score is score / factors; it is returned
\* as that fraction, numerator and denominator.
calculatePerformanceScore(m) ==
    LET fpsScore ==
            IF m.fps < thresholds.fps.poor THEN 3
            ELSE IF m.fps < thresholds.fps.fair THEN 2
            ELSE IF m.fps < thresholds.fps.good THEN 1 ELSE 0
        frameTimeScore ==
            IF m.avgFrameTime > thresholds.frameTime.poor * FrameTimeUnit THEN 3
            ELSE IF m.avgFrameTime > thresholds.frameTime.fair * FrameTimeUnit THEN 2
            ELSE IF m.avgFrameTime > thresholds.frameTime.good * FrameTimeUnit THEN 1
            ELSE 0
        droppedScore ==
            IF m.droppedFrames > thresholds.droppedFrames.critical THEN 3
            ELSE IF m.droppedFrames > thresholds.droppedFrames.concerning THEN 2
            ELSE IF m.droppedFrames > thresholds.droppedFrames.acceptable THEN 1
            ELSE 0
        latencyScore ==
            IF m.uploadLatency > thresholds.uploadLatency.poor THEN 3
            ELSE IF m.uploadLatency > thresholds.uploadLatency.fair THEN 2
            ELSE IF m.uploadLatency > thresholds.uploadLatency.good THEN 1
            ELSE 0
    IN  [num |-> fpsScore + frameTimeScore + droppedScore + latencyScore,
         den |-> 4]

\* getTargetDegradation() whose first threshold is 3.0 in place of 2.5.
getTargetDegradationHighThreshold(performanceScore) ==
    IF 10 * performanceScore.num >= 30 * performanceScore.den THEN 3
    ELSE IF 10 * performanceScore.num >= 15 * performanceScore.den THEN 2
    ELSE IF 10 * performanceScore.num >= 8 * performanceScore.den THEN 1
    ELSE 0

\* getTargetDegradation(performanceScore): >= 2.5, >= 1.5, >= 0.8 on the
\* fraction num / den.
getTargetDegradation(performanceScore) ==
    IF 10 * performanceScore.num >= 25 * performanceScore.den THEN 3
    ELSE IF 10 * performanceScore.num >= 15 * performanceScore.den THEN 2
    ELSE IF 10 * performanceScore.num >= 8 * performanceScore.den THEN 1
    ELSE 0

\* getDataTypeString(dtype)
getDataTypeString(dtype) ==
    CASE dtype = DataTypeU8 -> "u8"
      [] dtype = DataTypeU16 -> "u16"
      [] dtype = DataTypeF32 -> "f32"
      [] dtype = DataTypeMuLawU8 -> "mulaw"
      [] OTHER -> "unknown"

\* The QualityMessage built for settings (the timestamp is left out).
QualityMessage(settings) ==
    [type |-> "quality", dtype |-> getDataTypeString(settings.dtype),
     downsample |-> settings.downsample]

\* settingsChanged(newSettings) against the current settings cur.
settingsChanged(cur, newSettings) ==
    cur.dtype # newSettings.dtype \/ cur.downsample # newSettings.downsample

\* applyDegradation() without the settingsChanged() test: every level change
\* replaces the settings, sends a message and invokes the callback.
applyDegradationAlwaysSend(level, dl, cur, base) ==
    LET clampedLevel == Max(0, Min(level, 3))
        newSettings == IF clampedLevel = 0 THEN base ELSE qualityLevels[clampedLevel]
    IN  IF clampedLevel = dl
        THEN [degradationLevel |-> dl, currentSettings |-> cur,
              emitted |-> <<>>, notified |-> <<>>]
        ELSE [degradationLevel |-> clampedLevel, currentSettings |-> newSettings,
              emitted |-> <<QualityMessage(newSettings)>>,
              notified |-> <<newSettings>>]

\* applyDegradation() that installs the new settings and invokes the callback
\* but sends no message.
applyDegradationNoSend(level, dl, cur, base) ==
    LET clampedLevel == Max(0, Min(level, 3))
        newSettings == IF clampedLevel = 0 THEN base ELSE qualityLevels[clampedLevel]
    IN  IF clampedLevel = dl
        THEN [degradationLevel |-> dl, currentSettings |-> cur,
              emitted |-> <<>>, notified |-> <<>>]
        ELSE IF settingsChanged(cur, newSettings)
        THEN [degradationLevel |-> clampedLevel, currentSettings |-> newSettings,
              emitted |-> <<>>, notified |-> <<newSettings>>]
        ELSE [degradationLevel |-> clampedLevel, currentSettings |-> cur,
              emitted |-> <<>>, notified |-> <<>>]

\* applyDegradation(level) from the state (dl, cur, base): the fields it
\* leaves behind, what it sent and what it passed to the callback.
applyDegradation(level, dl, cur, base) ==
    LET clampedLevel == Max(0, Min(level, 3))
        newSettings == IF clampedLevel = 0 THEN base ELSE qualityLevels[clampedLevel]
    IN  IF clampedLevel = dl
        THEN [degradationLevel |-> dl, currentSettings |-> cur,
              emitted |-> <<>>, notified |-> <<>>]
        ELSE IF settingsChanged(cur, newSettings)
        THEN [degradationLevel |-> clampedLevel, currentSettings |-> newSettings,
              emitted |-> <<QualityMessage(newSettings)>>,
              notified |-> <<newSettings>>]
        ELSE [degradationLevel |-> clampedLevel, currentSettings |-> cur,
              emitted |-> <<>>, notified |-> <<>>]

\* The target level of the metrics now in force.
Target == getTargetDegradation(calculatePerformanceScore(metrics))

\* evaluatePerformance() whose degrade branch forgets to reset the
\* steady-state counter.
evaluatePerformanceNoReset ==
    LET targetDegradation == Target
    IN  IF targetDegradation > degradationLevel
        THEN LET r == applyDegradation(targetDegradation, degradationLevel,
                                       currentSettings, baselineSettings)
             IN  /\ degradationLevel' = r.degradationLevel
                 /\ currentSettings' = r.currentSettings
                 /\ emitted' = r.emitted
                 /\ notified' = r.notified
                 /\ UNCHANGED steadyStateFrames
        ELSE IF targetDegradation < degradationLevel
        THEN IF steadyStateFrames + 1 >= thresholds.steadyStateFrames
             THEN LET r == applyDegradation(targetDegradation, degradationLevel,
                                            currentSettings, baselineSettings)
                  IN  /\ degradationLevel' = r.degradationLevel
                      /\ currentSettings' = r.currentSettings
                      /\ emitted' = r.emitted
                      /\ notified' = r.notified
                      /\ steadyStateFrames' = 0
             ELSE /\ steadyStateFrames' = steadyStateFrames + 1
                  /\ emitted' = <<>>
                  /\ notified' = <<>>
                  /\ UNCHANGED <<degradationLevel, currentSettings>>
        ELSE /\ steadyStateFrames' = Min(steadyStateFrames + 1, 10)
             /\ emitted' = <<>>
             /\ notified' = <<>>
             /\ UNCHANGED <<degradationLevel, currentSettings>>

\* evaluatePerformance() whose improve branch compares the counter with > in
\* place of >=.
evaluatePerformanceLateUpgrade ==
    LET targetDegradation == Target
    IN  IF targetDegradation > degradationLevel
        THEN LET r == applyDegradation(targetDegradation, degradationLevel,
                                       currentSettings, baselineSettings)
             IN  /\ degradationLevel' = r.degradationLevel
                 /\ currentSettings' = r.currentSettings
                 /\ emitted' = r.emitted
                 /\ notified' = r.notified
                 /\ steadyStateFrames' = 0
        ELSE IF targetDegradation < degradationLevel
        THEN IF steadyStateFrames + 1 > thresholds.steadyStateFrames
             THEN LET r == applyDegradation(targetDegradation, degradationLevel,
                                            currentSettings, baselineSettings)
                  IN  /\ degradationLevel' = r.degradationLevel
                      /\ currentSettings' = r.currentSettings
                      /\ emitted' = r.emitted
                      /\ notified' = r.notified
                      /\ steadyStateFrames' = 0
             ELSE /\ steadyStateFrames' = steadyStateFrames + 1
                  /\ emitted' = <<>>
                  /\ notified' = <<>>
                  /\ UNCHANGED <<degradationLevel, currentSettings>>
        ELSE /\ steadyStateFrames' = Min(steadyStateFrames + 1, 10)
             /\ emitted' = <<>>
             /\ notified' = <<>>
             /\ UNCHANGED <<degradationLevel, currentSettings>>

\* evaluatePerformance() whose stable branch lets the counter grow by one
\* past the cap.
evaluatePerformanceCapEleven ==
    LET targetDegradation == Target
    IN  IF targetDegradation > degradationLevel
        THEN LET r == applyDegradation(targetDegradation, degradationLevel,
                                       currentSettings, baselineSettings)
             IN  /\ degradationLevel' = r.degradationLevel
                 /\ currentSettings' = r.currentSettings
                 /\ emitted' = r.emitted
                 /\ notified' = r.notified
                 /\ steadyStateFrames' = 0
        ELSE IF targetDegradation < degradationLevel
        THEN IF steadyStateFrames + 1 >= thresholds.steadyStateFrames
             THEN LET r == applyDegradation(targetDegradation, degradationLevel,
                                            currentSettings, baselineSettings)
                  IN  /\ degradationLevel' = r.degradationLevel
                      /\ currentSettings' = r.currentSettings
                      /\ emitted' = r.emitted
                      /\ notified' = r.notified
                      /\ steadyStateFrames' = 0
             ELSE /\ steadyStateFrames' = steadyStateFrames + 1
                  /\ emitted' = <<>>
                  /\ notified' = <<>>
                  /\ UNCHANGED <<degradationLevel, currentSettings>>
        ELSE /\ steadyStateFrames' = Min(steadyStateFrames + 1, 11)
             /\ emitted' = <<>>
             /\ notified' = <<>>
             /\ UNCHANGED <<degradationLevel, currentSettings>>

\* evaluatePerformance() whose improve branch only counts and never applies
\* the better level.
evaluatePerformanceNeverUpgrade ==
    LET targetDegradation == Target
    IN  IF targetDegradation > degradationLevel
        THEN LET r == applyDegradation(targetDegradation, degradationLevel,
                                       currentSettings, baselineSettings)
             IN  /\ degradationLevel' = r.degradationLevel
                 /\ currentSettings' = r.currentSettings
                 /\ emitted' = r.emitted
                 /\ notified' = r.notified
                 /\ steadyStateFrames' = 0
        ELSE IF targetDegradation < degradationLevel
        THEN /\ steadyStateFrames' =
                    Min(steadyStateFrames + 1, thresholds.steadyStateFrames - 1)
             /\ emitted' = <<>>
             /\ notified' = <<>>
             /\ UNCHANGED <<degradationLevel, currentSettings>>
        ELSE /\ steadyStateFrames' = Min(steadyStateFrames + 1, 10)
             /\ emitted' = <<>>
             /\ notified' = <<>>
             /\ UNCHANGED <<degradationLevel, currentSettings>>

\* evaluatePerformance() whose upgrade branch keeps the incremented counter in
\* place of zeroing it.
evaluatePerformanceKeepCounterOnUpgrade ==
    LET targetDegradation == Target
    IN  IF targetDegradation > degradationLevel
        THEN LET r == applyDegradation(targetDegradation, degradationLevel,
                                       currentSettings, baselineSettings)
             IN  /\ degradationLevel' = r.degradationLevel
                 /\ currentSettings' = r.currentSettings
                 /\ emitted' = r.emitted
                 /\ notified' = r.notified
                 /\ steadyStateFrames' = 0
        ELSE IF targetDegradation < degradationLevel
        THEN IF steadyStateFrames + 1 >= thresholds.steadyStateFrames
             THEN LET r == applyDegradation(targetDegradation, degradationLevel,
                                            currentSettings, baselineSettings)
                  IN  /\ degradationLevel' = r.degradationLevel
                      /\ currentSettings' = r.currentSettings
                      /\ emitted' = r.emitted
                      /\ notified' = r.notified
                      /\ steadyStateFrames' = steadyStateFrames + 1
             ELSE /\ steadyStateFrames' = steadyStateFrames + 1
                  /\ emitted' = <<>>
                  /\ notified' = <<>>
                  /\ UNCHANGED <<degradationLevel, currentSettings>>
        ELSE /\ steadyStateFrames' = Min(steadyStateFrames + 1, 10)
             /\ emitted' = <<>>
             /\ notified' = <<>>
             /\ UNCHANGED <<degradationLevel, currentSettings>>

\* evaluatePerformance() that upgrades on the first tick whose target is
\* better, without waiting for the steady-state counter.
evaluatePerformanceUpgradeAtOnce ==
    LET targetDegradation == Target
    IN  IF targetDegradation # degradationLevel
        THEN LET r == applyDegradation(targetDegradation, degradationLevel,
                                       currentSettings, baselineSettings)
             IN  /\ degradationLevel' = r.degradationLevel
                 /\ currentSettings' = r.currentSettings
                 /\ emitted' = r.emitted
                 /\ notified' = r.notified
                 /\ steadyStateFrames' = 0
        ELSE /\ steadyStateFrames' = Min(steadyStateFrames + 1, 10)
             /\ emitted' = <<>>
             /\ notified' = <<>>
             /\ UNCHANGED <<degradationLevel, currentSettings>>

\* evaluatePerformance(): one tick of the control loop.
evaluatePerformance ==
    LET targetDegradation == Target
    IN  IF targetDegradation > degradationLevel
        THEN \* performance is poor: degrade at once
             LET r == applyDegradation(targetDegradation, degradationLevel,
                                       currentSettings, baselineSettings)
             IN  /\ degradationLevel' = r.degradationLevel
                 /\ currentSettings' = r.currentSettings
                 /\ emitted' = r.emitted
                 /\ notified' = r.notified
                 /\ steadyStateFrames' = 0
        ELSE IF targetDegradation < degradationLevel
        THEN \* performance is improving: steadyStateFrames++, then the test
             IF steadyStateFrames + 1 >= thresholds.steadyStateFrames
             THEN LET r == applyDegradation(targetDegradation, degradationLevel,
                                            currentSettings, baselineSettings)
                  IN  /\ degradationLevel' = r.degradationLevel
                      /\ currentSettings' = r.currentSettings
                      /\ emitted' = r.emitted
                      /\ notified' = r.notified
                      /\ steadyStateFrames' = 0
             ELSE /\ steadyStateFrames' = steadyStateFrames + 1
                  /\ emitted' = <<>>
                  /\ notified' = <<>>
                  /\ UNCHANGED <<degradationLevel, currentSettings>>
        ELSE \* stable at the current level
             /\ steadyStateFrames' = Min(steadyStateFrames + 1, 10)
             /\ emitted' = <<>>
             /\ notified' = <<>>
             /\ UNCHANGED <<degradationLevel, currentSettings>>

\* updateMetrics(newMetrics): newMetrics is a partial record (a function on
\* some of the field names); its fields overwrite those of metrics.
updateMetrics(newMetrics) ==
    /\ metrics' = [f \in DOMAIN metrics |->
                     IF f \in DOMAIN newMetrics THEN newMetrics[f] ELSE metrics[f]]
    /\ emitted' = <<>>
    /\ notified' = <<>>
    /\ UNCHANGED <<degradationLevel, steadyStateFrames, currentSettings,
                   baselineSettings, isMonitoring>>

\* setBaselineSettings(settings)
setBaselineSettings(settings) ==
    /\ baselineSettings' = settings
    /\ emitted' = <<>>
    /\ notified' = <<>>
    /\ UNCHANGED <<metrics, degradationLevel, steadyStateFrames, currentSettings,
                   isMonitoring>>

\* forceQuality() body without the leading applyDegradation(0): the level is
\* left where it is.
forceQualityResultKeepLevel(settings) ==
    [degradationLevel |-> degradationLevel,
     currentSettings |-> settings,
     baselineSettings |-> settings,
     emitted |-> <<QualityMessage(settings)>>,
     notified |-> <<settings>>]

\* forceQuality() body that replaces the current settings only.
forceQualityResultKeepBaseline(settings) ==
    LET r == applyDegradation(0, degradationLevel, currentSettings, baselineSettings)
    IN  [degradationLevel |-> r.degradationLevel,
         currentSettings |-> settings,
         baselineSettings |-> baselineSettings,
         emitted |-> Append(r.emitted, QualityMessage(settings)),
         notified |-> Append(r.notified, settings)]

\* The body of forceQuality(settings) from the current state: applyDegradation(0),
\* then both settings replaced, one message sent and the callback invoked.
forceQualityResult(settings) ==
    LET r == applyDegradation(0, degradationLevel, currentSettings, baselineSettings)
    IN  [degradationLevel |-> r.degradationLevel,
         currentSettings |-> settings,
         baselineSettings |-> settings,
         emitted |-> Append(r.emitted, QualityMessage(settings)),
         notified |-> Append(r.notified, settings)]

\* forceQuality(settings)
forceQuality(settings) ==
    LET r == forceQualityResult(settings)
    IN  /\ degradationLevel' = r.degradationLevel
        /\ currentSettings' = r.currentSettings
        /\ baselineSettings' = r.baselineSettings
        /\ emitted' = r.emitted
        /\ notified' = r.notified
        /\ UNCHANGED <<metrics, steadyStateFrames, isMonitoring>>

\* resetToBaseline() that leaves the steady-state counter as it is.
resetToBaselineKeepCounter ==
    LET r == forceQualityResult(baselineSettings)
    IN  /\ degradationLevel' = 0
        /\ currentSettings' = r.currentSettings
        /\ baselineSettings' = r.baselineSettings
        /\ emitted' = r.emitted
        /\ notified' = r.notified
        /\ UNCHANGED <<metrics, isMonitoring, steadyStateFrames>>

\* resetToBaseline(): forceQuality(this.baselineSettings), then the level and
\* the counter are zeroed.
resetToBaseline ==
    LET r == forceQualityResult(baselineSettings)
    IN  /\ degradationLevel' = 0
        /\ steadyStateFrames' = 0
        /\ currentSettings' = r.currentSettings
        /\ baselineSettings' = r.baselineSettings
        /\ emitted' = r.emitted
        /\ notified' = r.notified
        /\ UNCHANGED <<metrics, isMonitoring>>

\* startMonitoring() / stopMonitoring(): the interval that calls
\* evaluatePerformance() every second exists exactly while isMonitoring.
startMonitoring ==
    /\ isMonitoring' = TRUE
    /\ emitted' = <<>>
    /\ notified' = <<>>
    /\ UNCHANGED <<metrics, degradationLevel, steadyStateFrames, currentSettings,
                   baselineSettings>>

stopMonitoring ==
    /\ isMonitoring' = FALSE
    /\ emitted' = <<>>
    /\ notified' = <<>>
    /\ UNCHANGED <<metrics, degradationLevel, steadyStateFrames, currentSettings,
                   baselineSettings>>

\* Inputs: the metrics updates fed to the controller (full snapshots and
\* single-field updates) and the settings given to the manual operations.
MetricsUpdates ==
    { [fps |-> 60, avgFrameTime |-> 1667, droppedFrames |-> 0, uploadLatency |-> 0],
      [fps |-> 10, avgFrameTime |-> 10000, droppedFrames |-> 20, uploadLatency |-> 500],
      [fps |-> 20],
      [uploadLatency |-> 200] }

SettingsInputs ==
    { [dtype |-> DataTypeF32, downsample |-> 1],
      [dtype |-> DataTypeU16, downsample |-> 2],
      [dtype |-> DataTypeU8, downsample |-> 2] }

\* The message most recently sent, after a step of the controller.
LastSentAfter ==
    IF emitted' # <<>> THEN emitted'[Len(emitted')] ELSE lastSent

\* The interval callback: a tick happens only while monitoring.
Tick ==
    /\ isMonitoring
    /\ evaluatePerformance
    /\ lastOp' = [op |-> "evaluatePerformance", arg |-> 0]
    /\ lastSent' = LastSentAfter
    /\ UNCHANGED <<metrics, baselineSettings, isMonitoring, goodRun, quietTicks, poolVars, parserVars, workerVars>>

UpdateMetrics ==
    /\ \E m \in MetricsUpdates : updateMetrics(m)
    /\ lastOp' = [op |-> "updateMetrics", arg |-> 0]
    /\ lastSent' = LastSentAfter
    /\ UNCHANGED <<goodRun, quietTicks, poolVars, parserVars, workerVars>>

SetBaselineSettings ==
    /\ \E s \in SettingsInputs : setBaselineSettings(s)
    /\ lastOp' = [op |-> "setBaselineSettings", arg |-> 0]
    /\ lastSent' = LastSentAfter
    /\ UNCHANGED <<goodRun, quietTicks, poolVars, parserVars, workerVars>>

ForceQuality ==
    /\ \E s \in SettingsInputs : forceQuality(s)
    /\ lastOp' = [op |-> "forceQuality", arg |-> 0]
    /\ lastSent' = LastSentAfter
    /\ UNCHANGED <<goodRun, quietTicks, poolVars, parserVars, workerVars>>

ResetToBaseline ==
    /\ resetToBaseline
    /\ lastOp' = [op |-> "resetToBaseline", arg |-> 0]
    /\ lastSent' = LastSentAfter
    /\ UNCHANGED <<goodRun, quietTicks, poolVars, parserVars, workerVars>>

StartMonitoring ==
    /\ startMonitoring
    /\ lastOp' = [op |-> "startMonitoring", arg |-> 0]
    /\ lastSent' = LastSentAfter
    /\ UNCHANGED <<goodRun, quietTicks, poolVars, parserVars, workerVars>>

StopMonitoring ==
    /\ stopMonitoring
    /\ lastOp' = [op |-> "stopMonitoring", arg |-> 0]
    /\ lastSent' = LastSentAfter
    /\ UNCHANGED <<goodRun, quietTicks, poolVars, parserVars, workerVars>>

NextQuality ==
    \/ Tick
    \/ UpdateMetrics
    \/ SetBaselineSettings
    \/ ForceQuality
    \/ ResetToBaseline
    \/ StartMonitoring
    \/ StopMonitoring

\* A tick that also records the length of the current run of ticks whose
\* target was better than the level in force; the run ends with any other
\* tick and with any change of level.
TickObserved ==
    /\ isMonitoring
    /\ evaluatePerformance
    /\ lastOp' = [op |-> "evaluatePerformance", arg |-> 0]
    /\ lastSent' = LastSentAfter
    /\ goodRun' = IF Target < degradationLevel /\ degradationLevel' = degradationLevel
                  THEN goodRun + 1 ELSE 0
    /\ UNCHANGED <<metrics, baselineSettings, isMonitoring, quietTicks, poolVars, parserVars, workerVars>>

\* The control loop fed with samples and ticked, with the runs observed.
NextQualityObserved ==
    \/ TickObserved
    \/ UpdateMetrics
    \/ StartMonitoring
    \/ StopMonitoring

\* The number of ticks since the level last changed, after a step.
QuietTicksAfter(ticked) ==
    IF degradationLevel' # degradationLevel THEN 0
    ELSE IF ticked THEN Min(quietTicks + 1, thresholds.steadyStateFrames)
    ELSE quietTicks

\* A tick, and the manual operations, with the ticks since the last change of
\* level counted.
TickCounted ==
    /\ isMonitoring
    /\ evaluatePerformance
    /\ lastOp' = [op |-> "evaluatePerformance", arg |-> 0]
    /\ lastSent' = LastSentAfter
    /\ quietTicks' = QuietTicksAfter(TRUE)
    /\ UNCHANGED <<metrics, baselineSettings, isMonitoring, goodRun, poolVars, parserVars, workerVars>>

ForceQualityCounted ==
    /\ \E s \in SettingsInputs : forceQuality(s)
    /\ lastOp' = [op |-> "forceQuality", arg |-> 0]
    /\ lastSent' = LastSentAfter
    /\ quietTicks' = QuietTicksAfter(FALSE)
    /\ UNCHANGED <<goodRun, poolVars, parserVars, workerVars>>

ResetToBaselineCounted ==
    /\ resetToBaseline
    /\ lastOp' = [op |-> "resetToBaseline", arg |-> 0]
    /\ lastSent' = LastSentAfter
    /\ quietTicks' = QuietTicksAfter(FALSE)
    /\ UNCHANGED <<goodRun, poolVars, parserVars, workerVars>>

NextQualityCounted ==
    \/ TickCounted
    \/ UpdateMetrics
    \/ ForceQualityCounted
    \/ ResetToBaselineCounted
    \/ StartMonitoring
    \/ StopMonitoring

\* ------------------------------------------------------------ TileFrameParser
TILE_HEADER_SIZE == 24
EXPECTED_MSG_TYPE == 1

LIMITS ==
    [maxTileWidth |-> 2048,
     maxTileHeight |-> 2048,
     maxCoordinate |-> 1000000,
     maxSliceIndex |-> 100000,
     maxPixelsPerTile |-> 4 * 1024 * 1024,
     maxPayloadSize |-> 16 * 1024 * 1024]

\* ParseError enum (its string values).
BUFFER_TOO_SHORT == "buffer_too_short"
INVALID_MESSAGE_TYPE == "invalid_message_type"
INVALID_PLANE_TYPE == "invalid_plane_type"
INVALID_DATA_TYPE == "invalid_data_type"
INVALID_COMPRESSION_TYPE == "invalid_compression_type"
INVALID_TILE_DIMENSIONS == "invalid_tile_dimensions"
INVALID_PAYLOAD_SIZE == "invalid_payload_size"
PAYLOAD_SIZE_MISMATCH == "payload_size_mismatch"
UNCOMPRESSED_SIZE_MISMATCH == "uncompressed_size_mismatch"
CORRUPTED_HEADER == "corrupted_header"
ENDIANNESS_MISMATCH == "endianness_mismatch"

ParseErrorKinds ==
    {BUFFER_TOO_SHORT, INVALID_MESSAGE_TYPE, INVALID_PLANE_TYPE, INVALID_DATA_TYPE,
     INVALID_COMPRESSION_TYPE, INVALID_TILE_DIMENSIONS, INVALID_PAYLOAD_SIZE,
     PAYLOAD_SIZE_MISMATCH, UNCOMPRESSED_SIZE_MISMATCH, CORRUPTED_HEADER,
     ENDIANNESS_MISMATCH}

\* PlaneType and the value sets of the three enums of src/types, as
\* Object.values(...).includes(number) sees them.
PlaneTypes == {0, 1, 2}
DataTypes == {DataTypeU8, DataTypeU16, DataTypeF32, DataTypeMuLawU8}

\* An ArrayBuffer is [byteLength, bytes]: bytes holds the leading bytes of the
\* buffer, as many as the parser can ever address (HeaderBytesRead) or all of
\* them when the buffer is shorter; the bytes after them are never read.
HeaderBytesRead == 28

\* DataView reads at byte offset off.  A read that does not fit in the buffer
\* throws a RangeError: InBounds is the test, the getters give the value.
InBounds(buf, off, size) == off + size <= buf.byteLength
getUint8(buf, off) == buf.bytes[off + 1]
getUint16(buf, off) == buf.bytes[off + 1] + 256 * buf.bytes[off + 2]
getUint32(buf, off) ==
    buf.bytes[off + 1] + 256 * buf.bytes[off + 2]
        + 65536 * buf.bytes[off + 3] + 16777216 * buf.bytes[off + 4]

\* The shapes of what parseHeader and parse return.  `threw` marks an
\* exception leaving the function instead of a returned value.
\* undefined and null, as values that compare with records.
NoData == [undefined |-> TRUE]
Null == [null |-> TRUE]
Failure(kind) == [threw |-> FALSE, success |-> FALSE, error |-> kind, data |-> NoData]
Success(d) == [threw |-> FALSE, success |-> TRUE, error |-> "undefined", data |-> d]
Thrown == [threw |-> TRUE, success |-> FALSE, error |-> "undefined", data |-> NoData]

isValidPlaneType(value) == value >= 0 /\ value <= 2 /\ value \in PlaneTypes
isValidDataType(value) == value \in DataTypes
isValidCompressionType(value) == value \in CompressionTypes

\* getBytesPerSample() without the F32 case: F32 falls to the default.
getBytesPerSampleNoF32(dtype) ==
    CASE dtype = DataTypeU8 -> 1
      [] dtype = DataTypeMuLawU8 -> 1
      [] dtype = DataTypeU16 -> 2
      [] OTHER -> 1

\* getBytesPerSample(dtype)
getBytesPerSample(dtype) ==
    CASE dtype = DataTypeU8 -> 1
      [] dtype = DataTypeMuLawU8 -> 1
      [] dtype = DataTypeU16 -> 2
      [] dtype = DataTypeF32 -> 4
      [] OTHER -> 1

\* The try block of parseHeader(view): reads and checks in source order.
parseHeaderTry(buf) ==
    IF ~InBounds(buf, 0, 1) THEN Thrown ELSE
    LET msgType == getUint8(buf, 0) IN
    IF msgType # EXPECTED_MSG_TYPE THEN Failure(INVALID_MESSAGE_TYPE) ELSE
    IF ~InBounds(buf, 1, 1) THEN Thrown ELSE
    LET planeValue == getUint8(buf, 1) IN
    IF ~isValidPlaneType(planeValue) THEN Failure(INVALID_PLANE_TYPE) ELSE
    IF ~InBounds(buf, 2, 2) \/ ~InBounds(buf, 4, 2) THEN Thrown ELSE
    LET tileW == getUint16(buf, 2)
        tileH == getUint16(buf, 4)
    IN
    IF tileW = 0 \/ tileH = 0 \/ tileW > LIMITS.maxTileWidth
          \/ tileH > LIMITS.maxTileHeight
    THEN Failure(INVALID_TILE_DIMENSIONS) ELSE
    LET pixelCount == tileW * tileH IN
    IF pixelCount > LIMITS.maxPixelsPerTile THEN Failure(INVALID_TILE_DIMENSIONS) ELSE
    IF ~InBounds(buf, 6, 4) \/ ~InBounds(buf, 10, 4) \/ ~InBounds(buf, 14, 4)
    THEN Thrown ELSE
    LET tileX == getUint32(buf, 6)
        tileY == getUint32(buf, 10)
        sliceIndex == getUint32(buf, 14)
    IN
    IF tileX > LIMITS.maxCoordinate \/ tileY > LIMITS.maxCoordinate
          \/ sliceIndex > LIMITS.maxSliceIndex
    THEN Failure(INVALID_TILE_DIMENSIONS) ELSE
    IF ~InBounds(buf, 18, 1) \/ ~InBounds(buf, 19, 1) THEN Thrown ELSE
    LET dtype == getUint8(buf, 18)
        compression == getUint8(buf, 19)
    IN
    IF ~isValidDataType(dtype) THEN Failure(INVALID_DATA_TYPE) ELSE
    IF ~isValidCompressionType(compression) THEN Failure(INVALID_COMPRESSION_TYPE) ELSE
    IF ~InBounds(buf, 20, 4) \/ ~InBounds(buf, 24, 4) THEN Thrown ELSE
    LET uncompressedBytes == getUint32(buf, 20)
        payloadBytes == getUint32(buf, 24)
    IN
    IF payloadBytes > LIMITS.maxPayloadSize THEN Failure(INVALID_PAYLOAD_SIZE) ELSE
    IF compression = CompressionNone /\ uncompressedBytes # payloadBytes
    THEN Failure(UNCOMPRESSED_SIZE_MISMATCH) ELSE
    IF uncompressedBytes # pixelCount * getBytesPerSample(dtype)
    THEN Failure(UNCOMPRESSED_SIZE_MISMATCH) ELSE
    Success([msgType |-> msgType, plane |-> planeValue, tileW |-> tileW,
             tileH |-> tileH, tileX |-> tileX, tileY |-> tileY,
             sliceIndex |-> sliceIndex, dtype |-> dtype,
             compression |-> compression,
             uncompressedBytes |-> uncompressedBytes,
             payloadBytes |-> payloadBytes])

\* parseHeader() whose catch block returns a failure without an error kind.
parseHeaderCatchNoKind(buf) ==
    LET r == parseHeaderTry(buf)
    IN  IF r.threw THEN Failure("undefined") ELSE r

\* parseHeader(view): the try block, and its catch block turning any
\* exception into CORRUPTED_HEADER.
parseHeader(buf) ==
    LET r == parseHeaderTry(buf)
    IN  IF r.threw THEN Failure(CORRUPTED_HEADER) ELSE r

\* validatePayload(payload, header); payload is the view [offset, length].
validatePayload(payload, header) ==
    IF payload.length # header.payloadBytes THEN Failure(PAYLOAD_SIZE_MISMATCH)
    ELSE IF header.compression # CompressionNone
            /\ payload.length > header.uncompressedBytes
    THEN Failure(INVALID_PAYLOAD_SIZE)
    ELSE Success(NoData)

\* parse() try block without the buffer size check at its start.
parseTryNoLengthCheck(buf) ==
    LET header == parseHeader(buf) IN
    IF header.threw THEN Thrown ELSE
    IF ~header.success THEN Failure(header.error) ELSE
    LET expectedTotalSize == TILE_HEADER_SIZE + header.data.payloadBytes IN
    IF buf.byteLength # expectedTotalSize THEN Failure(PAYLOAD_SIZE_MISMATCH) ELSE
    IF TILE_HEADER_SIZE + header.data.payloadBytes > buf.byteLength THEN Thrown ELSE
    LET payload == [offset |-> TILE_HEADER_SIZE, length |-> header.data.payloadBytes]
        payloadValidation == validatePayload(payload, header.data)
    IN
    IF ~payloadValidation.success THEN Failure(payloadValidation.error) ELSE
    Success([header |-> header.data, payload |-> payload])

\* parse() try block without the comparison of the buffer length with the
\* expected total size.
parseTryNoTotalSize(buf) ==
    IF buf.byteLength < TILE_HEADER_SIZE THEN Failure(BUFFER_TOO_SHORT) ELSE
    LET header == parseHeader(buf) IN
    IF header.threw THEN Thrown ELSE
    IF ~header.success THEN Failure(header.error) ELSE
    IF TILE_HEADER_SIZE + header.data.payloadBytes > buf.byteLength THEN Thrown ELSE
    LET payload == [offset |-> TILE_HEADER_SIZE, length |-> header.data.payloadBytes]
        payloadValidation == validatePayload(payload, header.data)
    IN
    IF ~payloadValidation.success THEN Failure(payloadValidation.error) ELSE
    Success([header |-> header.data, payload |-> payload])

\* The try block of parse(buffer).  The payload of an accepted frame is a
\* Uint8Array view of the buffer: its byte offset and its length.
parseTry(buf) ==
    IF buf.byteLength < TILE_HEADER_SIZE THEN Failure(BUFFER_TOO_SHORT) ELSE
    LET header == parseHeader(buf) IN
    IF header.threw THEN Thrown ELSE
    IF ~header.success THEN Failure(header.error) ELSE
    LET expectedTotalSize == TILE_HEADER_SIZE + header.data.payloadBytes IN
    IF buf.byteLength # expectedTotalSize THEN Failure(PAYLOAD_SIZE_MISMATCH) ELSE
    IF TILE_HEADER_SIZE + header.data.payloadBytes > buf.byteLength THEN Thrown ELSE
    LET payload == [offset |-> TILE_HEADER_SIZE, length |-> header.data.payloadBytes]
        payloadValidation == validatePayload(payload, header.data)
    IN
    IF ~payloadValidation.success THEN Failure(payloadValidation.error) ELSE
    Success([header |-> header.data, payload |-> payload])

\* What parse(buffer) returns: the try block, and the catch block turning any
\* exception into CORRUPTED_HEADER.
parseResult(buf) ==
    LET r == parseTry(buf)
    IN  IF r.threw THEN Failure(CORRUPTED_HEADER) ELSE r

\* parse() that keeps failing with the last error once a frame was dropped.
parseSticky(buf) ==
    LET r == IF lastError # "null" THEN Failure(lastError) ELSE parseResult(buf)
    IN  /\ frameCount' = frameCount + 1
        /\ result' = r
        /\ buffer' = buf
        /\ IF r.success
           THEN UNCHANGED <<droppedFrames, lastError>>
           ELSE /\ droppedFrames' = droppedFrames + 1
                /\ lastError' = r.error

\* parse() whose failure paths set lastError without counting the drop.
parseForgetsDrop(buf) ==
    LET r == parseResult(buf)
    IN  /\ frameCount' = frameCount + 1
        /\ result' = r
        /\ buffer' = buf
        /\ IF r.success
           THEN UNCHANGED <<droppedFrames, lastError>>
           ELSE /\ UNCHANGED droppedFrames
                /\ lastError' = r.error

\* parse(buffer): frameCount++, the result, and recordDrop(error) on every
\* failure path.
parse(buf) ==
    LET r == parseResult(buf)
    IN  /\ frameCount' = frameCount + 1
        /\ result' = r
        /\ buffer' = buf
        /\ IF r.success
           THEN UNCHANGED <<droppedFrames, lastError>>
           ELSE /\ droppedFrames' = droppedFrames + 1
                /\ lastError' = r.error

\* TileDecoder.decode(data): parse with the shared parser; null on failure.
decode(buf) ==
    /\ parse(buf)
    /\ decoded' = IF ~parseResult(buf).success THEN Null ELSE parseResult(buf).data

\* getStats(), without successRate.
getStats ==
    [totalFrames |-> frameCount, droppedFrames |-> droppedFrames,
     lastError |-> lastError]

\* resetStats()
resetStats ==
    /\ frameCount' = 0
    /\ droppedFrames' = 0
    /\ lastError' = "null"
    /\ UNCHANGED <<buffer, result, decoded>>

\* ---- input frames
\* Little-endian bytes of v.
U16LE(v) == <<v % 256, (v \div 256) % 256>>
U32LE(v) == <<v % 256, (v \div 256) % 256, (v \div 65536) % 256, (v \div 16777216) % 256>>

\* The leading bytes of a frame carrying the given field values at the byte
\* offsets parseHeader reads them from.
HeaderBytes(f) ==
    <<f.msgType, f.plane>> \o U16LE(f.tileW) \o U16LE(f.tileH) \o U32LE(f.tileX)
        \o U32LE(f.tileY) \o U32LE(f.sliceIndex) \o <<f.dtype, f.compression>>
        \o U32LE(f.uncompressedBytes) \o U32LE(f.payloadBytes)

\* A buffer of len bytes that starts with those bytes (cut short if len is
\* smaller).
Frame(f, len) ==
    [byteLength |-> len, bytes |-> SubSeq(HeaderBytes(f), 1, Min(len, HeaderBytesRead))]

DimSamples == {<<0, 2>>, <<2, 2>>, <<256, 256>>, <<2049, 2>>}
CoordSamples == {<<0, 0, 0>>, <<1000001, 0, 0>>, <<1000000, 1000000, 100001>>}
DTypeSamples == {DataTypeU8, DataTypeF32, 4}
CompressionSamples == {CompressionNone, CompressionLZ4, 3}

\* <<uncompressedBytes, payloadBytes>> samples for a tile of px pixels.
SizeSamples(px) ==
    UNION { { <<u, pb>> : pb \in {u, Max(u - 1, 0), u + 1, 16777217} }
            : u \in {px, 4 * px, px + 1} }

FieldSamples ==
    UNION { { [msgType |-> m, plane |-> p, tileW |-> d[1], tileH |-> d[2],
               tileX |-> c[1], tileY |-> c[2], sliceIndex |-> c[3],
               dtype |-> t, compression |-> z,
               uncompressedBytes |-> s[1], payloadBytes |-> s[2]] :
                 m \in {1, 2}, p \in {2, 3}, t \in DTypeSamples,
                 z \in CompressionSamples, s \in SizeSamples(d[1] * d[2]) }
            : d \in DimSamples, c \in CoordSamples }

\* Buffer lengths tried for a frame: empty, one byte short of the header,
\* exactly the header size, three bytes more, and the declared payload after a
\* 24-byte header, exact and one byte too long.
LenSamples(f) ==
    {0, TILE_HEADER_SIZE - 1, TILE_HEADER_SIZE, TILE_HEADER_SIZE + 3,
     TILE_HEADER_SIZE + f.payloadBytes, TILE_HEADER_SIZE + f.payloadBytes + 1}

Frames == UNION { { Frame(f, n) : n \in LenSamples(f) } : f \in FieldSamples }

\* ---- frames delivered several times
\* A 2 x 2 U8 tile, uncompressed; the buffers made of it: accepted, too
\* short, cut inside the payload size field, one byte too long, wrong tag,
\* wrong uncompressed size.
BaseFields ==
    [msgType |-> EXPECTED_MSG_TYPE, plane |-> 2, tileW |-> 2, tileH |-> 2,
     tileX |-> 0, tileY |-> 0, sliceIndex |-> 0, dtype |-> DataTypeU8,
     compression |-> CompressionNone, uncompressedBytes |-> 4, payloadBytes |-> 4]

RepeatFrames ==
    { Frame(BaseFields, TILE_HEADER_SIZE + 4),
      Frame(BaseFields, TILE_HEADER_SIZE - 1),
      Frame(BaseFields, TILE_HEADER_SIZE),
      Frame(BaseFields, TILE_HEADER_SIZE + 5),
      Frame([BaseFields EXCEPT !.msgType = 2], TILE_HEADER_SIZE + 4),
      Frame([BaseFields EXCEPT !.uncompressedBytes = 5], TILE_HEADER_SIZE + 4) }

\* ---- frames built from a header and a payload
\* Valid headers: every field within its limits and both size equalities
\* true.
ValidHeaders ==
    UNION { { [msgType |-> EXPECTED_MSG_TYPE, plane |-> p,
               tileW |-> d[1], tileH |-> d[2],
               tileX |-> c[1], tileY |-> c[2], sliceIndex |-> c[3],
               dtype |-> t, compression |-> z,
               uncompressedBytes |-> d[1] * d[2] * getBytesPerSample(t),
               payloadBytes |-> IF z = CompressionNone
                                THEN d[1] * d[2] * getBytesPerSample(t)
                                ELSE d[1] * d[2] * getBytesPerSample(t) - k] :
                 p \in {0, 2}, t \in DataTypes, z \in CompressionTypes,
                 k \in {0, 1} }
            : d \in {<<1, 1>>, <<2, 2>>, <<256, 256>>},
              c \in {<<0, 0, 0>>, <<1000000, 1000000, 100000>>} }

\* The first bytes of the payloads tried: zeros, and bytes that happen to
\* spell the payload size.
PayloadHeads(h) == {<<0, 0, 0, 0>>, U32LE(h.payloadBytes)}

\* The frame for header h and a payload of h.payloadBytes bytes: all eleven
\* fields at the offsets parseHeader reads them from, then the payload.
EncodeAllFields(h) ==
    [byteLength |-> HeaderBytesRead + h.payloadBytes, bytes |-> HeaderBytes(h)]

\* The frame for header h with the header cut at TILE_HEADER_SIZE bytes, the
\* payload (starting with the bytes head) following at once.
EncodeFixedSize(h, head) ==
    [byteLength |-> TILE_HEADER_SIZE + h.payloadBytes,
     bytes |-> SubSeq(HeaderBytes(h), 1, TILE_HEADER_SIZE)
                 \o SubSeq(head, 1, Min(h.payloadBytes, 4))]

Encodings(h) ==
    {EncodeAllFields(h)} \cup {EncodeFixedSize(h, head) : head \in PayloadHeads(h)}

EmptyBuffer == [byteLength |-> 0, bytes |-> <<>>]

InitParser ==
    /\ frameCount = 0
    /\ droppedFrames = 0
    /\ lastError = "null"
    /\ buffer = EmptyBuffer
    /\ result = Failure("undefined")
    /\ decoded = Null

\* The data channel delivers the next frame to TileDecoder.decode.
Decode ==
    /\ incoming # <<>>
    /\ decode(Head(incoming))
    /\ incoming' = Tail(incoming)
    /\ lastOp' = [op |-> "decode", arg |-> 0]
    /\ UNCHANGED <<poolVars, qualityVars, workerVars>>

ResetStats ==
    /\ resetStats
    /\ lastOp' = [op |-> "resetStats", arg |-> 0]
    /\ UNCHANGED <<incoming, poolVars, qualityVars, workerVars>>

NextParser ==
    \/ Decode
    \/ ResetStats

\* ---------------------------------------------------- decompression worker
\* A value is absent from a response (the optional fields data and error).
Undefined == "undefined"
NoBytes == [defined |-> FALSE, byteLength |-> 0]
Bytes(n) == [defined |-> TRUE, byteLength |-> n]

\* new Uint8Array(n) throws a RangeError unless n is a valid array length.
IsArrayLength(n) == n >= 0

\* What a call made inside the try block produced: a Uint8Array, given by its
\* length, or a thrown Error, given by its message.
Returned(n) == [thrown |-> FALSE, byteLength |-> n, message |-> ""]
Throws(message) == [thrown |-> TRUE, byteLength |-> 0, message |-> message]

\* lz4Module.decompress / zstdModule.decompress (the placeholder modules):
\* the input itself when it already has the declared size, else a fresh
\* array of the declared size.
moduleDecompress(dataLength, uncompressedSize) ==
    IF dataLength = uncompressedSize THEN Returned(dataLength)
    ELSE IF IsArrayLength(uncompressedSize) THEN Returned(uncompressedSize)
    ELSE Throws("Invalid typed array length")

\* The switch of processRequest.
decompressSwitch(request) ==
    IF request.compression = CompressionNone THEN Returned(request.dataLength)
    ELSE IF request.compression \in {CompressionLZ4, CompressionZstd}
    THEN moduleDecompress(request.dataLength, request.uncompressedSize)
    ELSE Throws("Unsupported compression type")

\* What awaiting processRequest gives self.onmessage: a response, or an
\* exception (a rejected promise).
Responds(response) == [thrown |-> FALSE, response |-> response]
Rejects ==
    [thrown |-> TRUE,
     response |-> [id |-> 0, success |-> FALSE, data |-> NoBytes,
                   error |-> Undefined, timing |-> FALSE]]

\* processRequest() without its try/catch: what the switch throws leaves the
\* function.
processRequestNoCatch(request) ==
    IF ~initialized
    THEN Responds([id |-> request.id, success |-> FALSE, data |-> NoBytes,
                   error |-> "Decompression worker not initialized",
                   timing |-> FALSE])
    ELSE LET r == decompressSwitch(request)
         IN  IF r.thrown
             THEN Rejects
             ELSE Responds([id |-> request.id, success |-> TRUE,
                            data |-> Bytes(r.byteLength),
                            error |-> Undefined, timing |-> TRUE])

\* processRequest(request).  timing tells whether the response has the field.
processRequest(request) ==
    IF ~initialized
    THEN Responds([id |-> request.id, success |-> FALSE, data |-> NoBytes,
                   error |-> "Decompression worker not initialized",
                   timing |-> FALSE])
    ELSE LET r == decompressSwitch(request)
         IN  IF r.thrown
             THEN Responds([id |-> request.id, success |-> FALSE,
                            data |-> NoBytes, error |-> r.message,
                            timing |-> TRUE])
             ELSE Responds([id |-> request.id, success |-> TRUE,
                            data |-> Bytes(r.byteLength),
                            error |-> Undefined, timing |-> TRUE])

\* self.onmessage: the oldest delivered request is processed and the response
\* posted; an exception from the awaited call leaves the handler.
onmessage ==
    /\ mailbox # <<>>
    /\ LET request == Head(mailbox)
           r == processRequest(request)
       IN  /\ mailbox' = Tail(mailbox)
           /\ handled' = Append(handled, request)
           /\ IF r.thrown
              THEN /\ uncaught' = uncaught + 1
                   /\ UNCHANGED posted
              ELSE /\ posted' = Append(posted, r.response)
                   /\ UNCHANGED uncaught
           /\ UNCHANGED initialized

\* initialize(): both placeholder modules load and the flag is set; this
\* happens after the constructor has returned.
initialize ==
    /\ ~initialized
    /\ initialized' = TRUE
    /\ UNCHANGED <<mailbox, handled, posted, uncaught>>

\* Compression kinds a request can carry: the enum and one value outside it.
RequestCompressions == CompressionTypes \cup {3}

\* (data.length, uncompressedSize) of a request: equal, larger declared size,
\* and a declared size that is no array length.
RequestSizes == {<<2, 2>>, <<2, 4>>, <<2, -1>>}

InitWorker ==
    /\ initialized = FALSE
    /\ mailbox = <<>>
    /\ handled = <<>>
    /\ posted = <<>>
    /\ uncaught = 0

\* worker.postMessage of the pool: a request with the next task id reaches
\* the worker.
PostRequest ==
    /\ Len(handled) + Len(mailbox) < MaxRequests
    /\ \E c \in RequestCompressions, sz \in RequestSizes :
          mailbox' = Append(mailbox,
                            [id |-> Len(handled) + Len(mailbox) + 1,
                             dataLength |-> sz[1], compression |-> c,
                             uncompressedSize |-> sz[2]])
    /\ lastOp' = [op |-> "postRequest", arg |-> 0]
    /\ UNCHANGED <<initialized, handled, posted, uncaught>>
    /\ UNCHANGED <<poolVars, qualityVars, parserVars>>

OnMessage ==
    /\ onmessage
    /\ lastOp' = [op |-> "onmessage", arg |-> 0]
    /\ UNCHANGED <<poolVars, qualityVars, parserVars>>

Initialize ==
    /\ initialize
    /\ lastOp' = [op |-> "initialize", arg |-> 0]
    /\ UNCHANGED <<poolVars, qualityVars, parserVars>>

NextWorker ==
    \/ PostRequest
    \/ OnMessage
    \/ Initialize

\* ------------------------------------------------------------ specifications
Init ==
    /\ InitPool
    /\ InitQuality
    /\ InitParser
    /\ InitWorker
    /\ incoming = <<>>
    /\ lastOp = [op |-> "init", arg |-> 0]

\* The parser with one frame, any of Frames, about to arrive.
InitFrames ==
    /\ InitPool
    /\ InitQuality
    /\ InitParser
    /\ InitWorker
    /\ incoming \in {<<b>> : b \in Frames}
    /\ lastOp = [op |-> "init", arg |-> 0]

SpecPool == Init /\ [][NextPool]_vars

SpecPoolFair == SpecPool /\ \A w \in Workers : WF_vars(AnswerOf(w))

SpecQuality == Init /\ [][NextQuality]_vars

SpecQualityObserved == Init /\ [][NextQualityObserved]_vars

SpecQualityCounted == Init /\ [][NextQualityCounted]_vars

\* The control loop fed with samples and ticked, without manual operations.
NextQualityTicking ==
    \/ Tick
    \/ UpdateMetrics
    \/ StartMonitoring
    \/ StopMonitoring

\* The control loop with its interval timer: while monitoring, a tick that
\* would change the state is not postponed for ever.
SpecQualityFair == Init /\ [][NextQualityTicking]_vars /\ WF_vars(Tick)

\* Metrics snapshots for the score: each signal in its good range, past its
\* first threshold, past its second, exactly on its third and past it.
ScoreSamples ==
    [fps : {60, 44, 24, 15, 14},
     avgFrameTime : {1667, 2300, 4100, 6700, 6800},
     droppedFrames : {0, 6, 16, 30, 31},
     uploadLatency : {0, 51, 151, 300, 301}]

\* A controller whose metrics are one of the snapshots (updateMetrics was
\* called with it after construction).
InitScore ==
    /\ InitPool
    /\ InitParser
    /\ InitWorker
    /\ incoming = <<>>
    /\ lastOp = [op |-> "init", arg |-> 0]
    /\ currentSettings = [dtype |-> DataTypeF32, downsample |-> 1]
    /\ baselineSettings = [dtype |-> DataTypeF32, downsample |-> 1]
    /\ metrics \in ScoreSamples
    /\ degradationLevel = 0
    /\ steadyStateFrames = 0
    /\ isMonitoring = FALSE
    /\ emitted = <<>>
    /\ notified = <<>>
    /\ goodRun = 0
    /\ quietTicks = 0
    /\ lastSent = NoMessage

\* The control loop ticking on a fixed snapshot.
NextQualityScoring ==
    \/ Tick
    \/ StartMonitoring
    \/ StopMonitoring

SpecQualityScore == InitScore /\ [][NextQualityScoring]_vars

\* The data channel delivers a frame, another one, and the first one again.
InitRepeat ==
    /\ InitPool
    /\ InitQuality
    /\ InitParser
    /\ InitWorker
    /\ incoming \in {<<a, b, a>> : a \in RepeatFrames, b \in RepeatFrames}
    /\ lastOp = [op |-> "init", arg |-> 0]

SpecParserRepeat == InitRepeat /\ [][NextParser]_vars

\* The data channel delivers one frame built from a valid header and a
\* payload of the declared size.
InitRoundTrip ==
    /\ InitPool
    /\ InitQuality
    /\ InitParser
    /\ InitWorker
    /\ incoming \in {<<b>> : b \in UNION {Encodings(h) : h \in ValidHeaders}}
    /\ lastOp = [op |-> "init", arg |-> 0]

SpecParserRoundTrip == InitRoundTrip /\ [][NextParser]_vars

SpecParser == InitFrames /\ [][NextParser]_vars

SpecWorker == Init /\ [][NextWorker]_vars

\* ------------------------------------------------- DecompressionPool claims
\* The tasks whose request was posted to worker w and that are still pending.
AssignedTo(w) == SeqToSet(inbox[w]) \cap pendingTasks

Queued == SeqToSet(taskQueue)

\* s is t with some prefix removed, and every removed element is in set.
SuffixAfterDispatch(s, t, set) ==
    \E k \in 0..Len(t) :
        /\ s = SubSeq(t, k + 1, Len(t))
        /\ \A i \in 1..k : t[i] \in set

\* A step that is a decompress() call of a compressed payload made while the
\* queue holds maxQueueSize tasks.
SubmitAtCapacity ==
    /\ lastOp'.op = "decompress"
    /\ lastOp'.arg # CompressionNone
    /\ nextTaskId' = nextTaskId + 1
    /\ Len(taskQueue) >= MaxQueueSize

\* C1: when decompress is called with a compressed payload while the queue
\* holds maxQueueSize tasks, the head (oldest queued) task is removed and
\* rejected with the back-pressure error and droppedTasks grows by exactly
\* one; the new task is appended and is not the one dropped; no task in
\* flight and no other queued task receives an outcome or is lost.
C1_DropOldest ==
    [][SubmitAtCapacity =>
        /\ outcomes' = Settle(outcomes, {Head(taskQueue)}, BackPressure)
        /\ stats'.droppedTasks = stats.droppedTasks + 1
        /\ outcomes'[nextTaskId] = <<>>
        /\ pendingTasks \subseteq pendingTasks'
        /\ SuffixAfterDispatch(taskQueue', Append(Shift(taskQueue), nextTaskId),
                               pendingTasks')
      ]_vars

\* C1 witness: a submit at a full queue has just evicted a task; the queue is
\* full again and its last element is the task just submitted.
C1_Witness ==
    /\ lastOp.op = "decompress"
    /\ stats.droppedTasks >= 1
    /\ Len(taskQueue) = MaxQueueSize
    /\ taskQueue[Len(taskQueue)] = nextTaskId - 1
    /\ \E t \in TaskIds : outcomes[t] = <<BackPressure>>

\* C2: every task id receives at most one terminal outcome (resolve or
\* reject call), whatever the interleaving of submits, worker responses,
\* worker error events and disposals.
C2_AtMostOneOutcome == \A t \in TaskIds : Len(outcomes[t]) <= 1

\* C2 witness: tasks have been settled by a worker response, by back-pressure,
\* by a worker error and by disposal, and a late response has been ignored.
C2_Witness ==
    /\ \E t \in TaskIds : outcomes[t] \in {<<Resolved>>, <<DecompressionFailed>>}
    /\ \E t \in TaskIds : outcomes[t] = <<BackPressure>>
    /\ \E t \in TaskIds : outcomes[t] = <<WorkerFault>>
    /\ \E t \in TaskIds : outcomes[t] = <<Disposed>>

\* C3: when a worker raises an error, exactly the tasks assigned to that
\* worker are rejected with the worker-fault error: no task in flight on
\* another worker and no queued task is rejected because of it.
C3_FaultIsolation ==
    [][lastOp'.op = "handleWorkerError" =>
        outcomes' = Settle(outcomes, AssignedTo(lastOp'.arg), WorkerFault)
      ]_vars

\* C4: after a worker fault the pool (not disposed) keeps working with
\* reduced capacity: as long as some worker has not faulted, and the workers
\* that have not faulted answer every request, each queued task is
\* eventually dispatched and receives a terminal outcome.
C4_QueuedTaskTerminates ==
    \A t \in TaskIds :
        (t \in Queued /\ workers # {} /\ faulted # {} /\ faulted # Workers)
            ~> (outcomes[t] # <<>> \/ faulted = Workers)

\* Only decompress() calls have been made on the pool since construction: no
\* response was counted, no worker raised an error, the pool is not disposed.
OnlySubmits ==
    /\ stats.completedTasks = 0
    /\ faulted = {}
    /\ workers = Workers

\* C11 as stated: once maxQueueSize + 1 tasks have been submitted and none
\* has completed, exactly one task has been dropped, the oldest submitted
\* one, and droppedTasks is 1.
C11_OneDropAfterQueueSizePlusOne ==
    (OnlySubmits /\ nextTaskId = MaxQueueSize + 2)
        => /\ stats.droppedTasks = 1
           /\ outcomes[1] = <<BackPressure>>

\* C11 amended: the idle workers take the first poolSize tasks, so it is
\* once poolSize + maxQueueSize + 1 tasks have been submitted to a new pool
\* and none has completed that exactly one task has been dropped: the oldest
\* queued one, which is submission poolSize + 1, and droppedTasks is 1.
C11_OneDropAfterWorkersAndQueueFilled ==
    (OnlySubmits /\ nextTaskId = PoolSize + MaxQueueSize + 2)
        => /\ stats.droppedTasks = 1
           /\ outcomes[PoolSize + 1] = <<BackPressure>>
           /\ \A t \in TaskIds \ {PoolSize + 1} : outcomes[t] = <<>>

\* C11 witness: poolSize + maxQueueSize + 1 submits and nothing else have
\* happened and one task was dropped.
C11_Witness ==
    /\ OnlySubmits
    /\ nextTaskId = PoolSize + MaxQueueSize + 2
    /\ lastOp.op = "decompress"
    /\ stats.droppedTasks = 1
    /\ Len(taskQueue) = MaxQueueSize

\* C12: dispose() rejects every queued and every in-flight (pending) task
\* with the disposal error and no other task, empties the queue, the pending
\* map and the worker collections, and leaves totalTasks and completedTasks
\* as they were.
C12_DisposeRejectsAll ==
    [][lastOp'.op = "dispose" =>
        /\ \A t \in TaskIds :
              outcomes'[t] = IF t \in pendingTasks \cup Queued
                             THEN <<Disposed>> ELSE outcomes[t]
        /\ taskQueue' = <<>>
        /\ pendingTasks' = {}
        /\ availableWorkers' = <<>>
        /\ busyWorkers' = {}
        /\ workers' = {}
        /\ stats'.totalTasks = stats.totalTasks
        /\ stats'.completedTasks = stats.completedTasks
      ]_vars

\* C12 witness: a dispose() has just rejected a full queue and a task in
\* flight on every worker.
C12_Witness ==
    /\ lastOp.op = "dispose"
    /\ Cardinality({t \in TaskIds : outcomes[t] = <<Disposed>>})
           = MaxQueueSize + PoolSize
    /\ stats.totalTasks >= MaxQueueSize + PoolSize
    /\ taskQueue = <<>>
    /\ pendingTasks = {}

\* The last step was a decompress() call that returned its payload at once.
ReturnedAtOnce == lastOp.op = "decompress" /\ lastOp.arg = CompressionNone

\* C13: once the pool is disposed no step dispatches a task to a worker,
\* resolves a task with bytes, or returns bytes to a decompress() call.
C13_UnusableAfterDispose ==
    [][workers = {} =>
        /\ pendingTasks' = {}
        /\ inbox' = inbox
        /\ \A t \in TaskIds :
              outcomes'[t] # outcomes[t] =>
                  outcomes'[t][Len(outcomes'[t])] # Resolved
        /\ ~ReturnedAtOnce'
      ]_vars

\* C14: a dispose() that directly follows a dispose() changes no pool state,
\* no counter and no task outcome.
C14_DisposeIdempotent ==
    [][(lastOp.op = "dispose" /\ lastOp'.op = "dispose") => UNCHANGED poolVars]_vars

\* C14 witness: the pool has been disposed with tasks outstanding and
\* dispose() was the last operation, so that a second dispose() follows it.
C14_Witness ==
    /\ lastOp.op = "dispose"
    /\ workers = {}
    /\ \E t \in TaskIds : outcomes[t] = <<Disposed>>
    /\ ENABLED Dispose

\* C15: a worker that has raised an error is not in the idle list and is
\* sent no further request.
C15_FaultedNeverIdle ==
    [][\A w \in faulted' :
          /\ w \notin SeqToSet(availableWorkers')
          /\ w \in faulted => Len(inbox'[w]) <= Len(inbox[w])
      ]_vars

\* A step in which a worker's response completes its task while the queue
\* is not empty.
CompletionWithQueue ==
    /\ lastOp'.op = "handleWorkerMessage"
    /\ stats'.completedTasks = stats.completedTasks + 1
    /\ taskQueue # <<>>

\* C16: when a worker's response completes its task while the queue is not
\* empty, the head of the queue is posted to that worker in the same step;
\* and no step ends with both an idle worker and a queued task.
C16_DispatchOnIdle ==
    [][/\ CompletionWithQueue =>
            /\ inbox'[lastOp'.arg] = <<Head(taskQueue)>>
            /\ taskQueue' = Shift(taskQueue)
            /\ Head(taskQueue) \in pendingTasks'
            /\ lastOp'.arg \in busyWorkers'
       /\ ~(availableWorkers' # <<>> /\ taskQueue' # <<>>)
      ]_vars

\* C16 witness: a response has just been counted and the answering worker
\* holds the next request, with more tasks still queued.
C16_Witness ==
    /\ lastOp.op = "handleWorkerMessage"
    /\ stats.completedTasks >= 1
    /\ inbox[lastOp.arg] # <<>>
    /\ lastOp.arg \in busyWorkers
    /\ taskQueue # <<>>

\* C17: the queue never holds more than maxQueueSize tasks, so the queue
\* pressure is at most 1, and shouldBackOff() is true exactly when the queue
\* length is above four fifths of maxQueueSize.
C17_QueueBounded ==
    /\ Len(taskQueue) <= MaxQueueSize
    /\ getQueuePressure.num <= getQueuePressure.den
    /\ shouldBackOff <=> 5 * Len(taskQueue) > 4 * MaxQueueSize

\* C17 witness: the queue is full after an eviction and shouldBackOff() is
\* true.
C17_Witness ==
    /\ Len(taskQueue) = MaxQueueSize
    /\ stats.droppedTasks >= 1
    /\ shouldBackOff

\* C18: every decompress() call, whatever the compression kind, counts one
\* more task in totalTasks.
C18_EveryPayloadCounted ==
    [][lastOp'.op = "decompress" => stats'.totalTasks = stats.totalTasks + 1]_vars

\* ------------------------------------------ AdaptiveQualityController claims
\* A step that is a tick of the control loop.
IsTick == lastOp'.op = "evaluatePerformance"

\* C5: hysteresis.  After poor ticks a single good tick does not upgrade the
\* level: a tick improves the level only when it completes a run of 60
\* consecutive ticks whose target was better than the level in force.
C5_UpgradeNeedsSixtyGoodTicks ==
    [][IsTick /\ degradationLevel' < degradationLevel
         => goodRun + 1 >= thresholds.steadyStateFrames]_vars

\* C6: on a tick whose target level is worse (higher) than the current level
\* the level becomes the target on that tick and the steady-state counter is
\* 0 after it.
C6_DegradeImmediately ==
    [][IsTick /\ Target > degradationLevel
         => degradationLevel' = Target /\ steadyStateFrames' = 0]_vars

\* C6 witness: a tick has just degraded to level 3 and sent the level-3
\* settings, with the counter at 0.
C6_Witness ==
    /\ lastOp.op = "evaluatePerformance"
    /\ degradationLevel = 3
    /\ Target = 3
    /\ steadyStateFrames = 0
    /\ emitted = <<QualityMessage(qualityLevels[3])>>

\* C7: on a tick whose target level is better (lower) than the current level
\* the level is unchanged and the steady-state counter grows by one, except
\* on the tick at which the counter reaches 60: there the level becomes the
\* target and the counter is reset to 0.
C7_UpgradeAtThreshold ==
    [][IsTick /\ Target < degradationLevel
         => IF steadyStateFrames + 1 = 60
            THEN degradationLevel' = Target /\ steadyStateFrames' = 0
            ELSE /\ degradationLevel' = degradationLevel
                 /\ steadyStateFrames' = steadyStateFrames + 1]_vars

\* C7 witness: a tick has just improved the level to 0 (only an improvement
\* ends at level 0 with a message sent) and reset the counter.
C7_Witness ==
    /\ lastOp.op = "evaluatePerformance"
    /\ degradationLevel = 0
    /\ steadyStateFrames = 0
    /\ emitted # <<>>

\* C19: whenever the degradation level is 0 the current settings are the
\* baseline settings, dtype and downsample.
C19_LevelZeroIsBaseline ==
    degradationLevel = 0 =>
        /\ currentSettings.dtype = baselineSettings.dtype
        /\ currentSettings.downsample = baselineSettings.downsample

\* The settings composed for a level: the baseline for level 0, else the
\* entry of the fixed table.
ComposedSettings(level) ==
    IF level = 0 THEN baselineSettings ELSE qualityLevels[level]

\* C20: on a tick that changes the degradation level, if the settings
\* composed for the new level differ from the current ones in dtype or in
\* downsample, they replace the current settings, exactly one message with
\* their dtype and downsample is sent and the observer is invoked exactly
\* once with them; if they do not differ, nothing is sent, the observer is
\* not invoked and the current settings stay.
C20_NotifyIffSettingsDiffer ==
    [][(IsTick /\ degradationLevel' # degradationLevel) =>
        LET new == ComposedSettings(degradationLevel')
        IN  IF new.dtype # currentSettings.dtype
               \/ new.downsample # currentSettings.downsample
            THEN /\ currentSettings' = new
                 /\ Len(emitted') = 1
                 /\ emitted'[1].type = "quality"
                 /\ emitted'[1].dtype = getDataTypeString(new.dtype)
                 /\ emitted'[1].downsample = new.downsample
                 /\ notified' = <<new>>
            ELSE /\ currentSettings' = currentSettings
                 /\ emitted' = <<>>
                 /\ notified' = <<>>
      ]_vars

\* C20 witness: a tick has just changed the level and sent the message for
\* the settings of the new level.
C20_Witness ==
    /\ lastOp.op = "evaluatePerformance"
    /\ degradationLevel > 0
    /\ steadyStateFrames = 0
    /\ currentSettings = qualityLevels[degradationLevel]
    /\ emitted = <<QualityMessage(currentSettings)>>
    /\ notified = <<currentSettings>>

\* C20, the other case: a tick has just brought the level back to 0 with a
\* baseline equal to the settings of the level it left, and sent nothing.
C20_SilentLevelChange ==
    /\ lastOp.op = "evaluatePerformance"
    /\ degradationLevel = 0
    /\ steadyStateFrames = 0
    /\ currentSettings = qualityLevels[3]
    /\ baselineSettings = qualityLevels[3]
    /\ emitted = <<>>

\* The settings a forceQuality() call was given: the ones its last callback
\* invocation received.
ForcedSettings == notified'[Len(notified')]

\* C21: forceQuality(s), whatever the level and the steady-state counter
\* before it, leaves the level at 0 and both the current and the baseline
\* settings equal to s.
C21_ForceQualityImmediate ==
    [][lastOp'.op = "forceQuality" =>
        /\ degradationLevel' = 0
        /\ currentSettings' = ForcedSettings
        /\ baselineSettings' = ForcedSettings
      ]_vars

\* C21 witness: forceQuality() has just been called at a degraded level with
\* an upgrade pending (the counter is not 0) and with settings other than
\* the baseline it replaced (two messages were sent, for different settings).
C21_Witness ==
    /\ lastOp.op = "forceQuality"
    /\ degradationLevel = 0
    /\ steadyStateFrames > 10
    /\ Len(emitted) = 2
    /\ emitted[1] # emitted[2]
    /\ currentSettings = baselineSettings

\* C22: resetToBaseline(), in any state, leaves the level at 0, the counter
\* at 0 and the current settings equal to the baseline settings, which it
\* does not change.
C22_ResetToBaseline ==
    [][lastOp'.op = "resetToBaseline" =>
        /\ degradationLevel' = 0
        /\ steadyStateFrames' = 0
        /\ currentSettings' = baselineSettings
        /\ baselineSettings' = baselineSettings
      ]_vars

\* C22 witness: resetToBaseline() has just been called at a degraded level
\* whose settings were not the baseline, which is not the initial one.
C22_Witness ==
    /\ lastOp.op = "resetToBaseline"
    /\ degradationLevel = 0
    /\ steadyStateFrames = 0
    /\ Len(emitted) = 2
    /\ currentSettings = baselineSettings
    /\ baselineSettings # [dtype |-> DataTypeF32, downsample |-> 1]

\* C23: on a tick whose target is the current level, the level and the
\* current settings stay, nothing is sent, and the counter becomes
\* min(counter + 1, 10), which is below the upgrade threshold.
C23_StableTick ==
    [][(IsTick /\ Target = degradationLevel) =>
        /\ degradationLevel' = degradationLevel
        /\ currentSettings' = currentSettings
        /\ emitted' = <<>>
        /\ notified' = <<>>
        /\ steadyStateFrames' = Min(steadyStateFrames + 1, 10)
        /\ steadyStateFrames' < thresholds.steadyStateFrames
      ]_vars

\* C23 witness: ticks at a stable degraded level have brought the counter to
\* its cap.
C23_Witness ==
    /\ lastOp.op = "evaluatePerformance"
    /\ Target = degradationLevel
    /\ degradationLevel > 0
    /\ steadyStateFrames = 10
    /\ emitted = <<>>

\* The metrics of the degradation scenario: 10 fps, 100 ms per frame, 20
\* dropped frames, 500 ms upload latency.
PoorMetrics ==
    [fps |-> 10, avgFrameTime |-> 100 * FrameTimeUnit, droppedFrames |-> 20,
     uploadLatency |-> 500]

\* C24: a tick made with the poor metrics in effect leaves the level at 3
\* and the current settings at the last table entry, U8 with downsample 2,
\* so that the dtype is not F32.
C24_PoorMetricsDegradeToMax ==
    [][(IsTick /\ metrics = PoorMetrics) =>
        /\ degradationLevel' = 3
        /\ currentSettings' = [dtype |-> DataTypeU8, downsample |-> 2]
        /\ getDataTypeString(currentSettings'.dtype) # "f32"
      ]_vars

\* C24 witness: a tick with the poor metrics has just moved full-quality F32
\* settings to level 3.
C24_Witness ==
    /\ lastOp.op = "evaluatePerformance"
    /\ metrics = PoorMetrics
    /\ degradationLevel = 3
    /\ baselineSettings = [dtype |-> DataTypeF32, downsample |-> 1]
    /\ currentSettings = qualityLevels[3]
    /\ notified = <<qualityLevels[3]>>

\* C25: convergence.  Every tick either reaches the target level, or keeps
\* the level while the target is better and counts one more tick towards the
\* threshold 60, which the counter never reaches, or keeps a level that is
\* the target; and if from some point on only ticks happen (the metrics are
\* then constant and there is no manual operation), from some point on the
\* level is the target level for ever.
C25_Converges ==
    /\ [][IsTick =>
            \/ degradationLevel' = Target
            \/ /\ Target < degradationLevel
               /\ degradationLevel' = degradationLevel
               /\ steadyStateFrames' = steadyStateFrames + 1
               /\ steadyStateFrames' < thresholds.steadyStateFrames
         ]_vars
    /\ <>[](lastOp.op = "evaluatePerformance") => <>[](degradationLevel = Target)

\* C25 witness: with metrics whose target is 0 held, the sixtieth tick has
\* just brought a degraded controller to the target level and sent the
\* baseline settings.
C25_Witness ==
    /\ lastOp.op = "evaluatePerformance"
    /\ Target = 0
    /\ degradationLevel = Target
    /\ steadyStateFrames = 0
    /\ currentSettings = baselineSettings
    /\ notified = <<baselineSettings>>

\* ------------------------------------------------------ TileFrameParser claims
\* The state is the one a decode call has just left.
JustDecoded == lastOp.op = "decode"

\* The header fields of buf, each at the byte offset the parser reads it
\* from (buf holds at least HeaderBytesRead bytes).
FieldsOf(buf) ==
    [msgType |-> getUint8(buf, 0), plane |-> getUint8(buf, 1),
     tileW |-> getUint16(buf, 2), tileH |-> getUint16(buf, 4),
     tileX |-> getUint32(buf, 6), tileY |-> getUint32(buf, 10),
     sliceIndex |-> getUint32(buf, 14), dtype |-> getUint8(buf, 18),
     compression |-> getUint8(buf, 19),
     uncompressedBytes |-> getUint32(buf, 20), payloadBytes |-> getUint32(buf, 24)]

\* bytesPerSample as the specification states it: U8 and MuLawU8 1, U16 2,
\* F32 4.
SampleBytes(dtype) ==
    IF dtype = DataTypeU16 THEN 2 ELSE IF dtype = DataTypeF32 THEN 4 ELSE 1

\* The validation sequence of the specification for header fields h in a
\* buffer of len bytes: <<check passes, error kind if it does not>>, in order.
ValidationSequence(h, len) ==
    << <<h.msgType = 1, INVALID_MESSAGE_TYPE>>,
       <<h.plane \in {0, 1, 2}, INVALID_PLANE_TYPE>>,
       <<h.tileW > 0 /\ h.tileW <= 2048 /\ h.tileH > 0 /\ h.tileH <= 2048
           /\ h.tileW * h.tileH <= 4194304, INVALID_TILE_DIMENSIONS>>,
       <<h.tileX <= 1000000 /\ h.tileY <= 1000000 /\ h.sliceIndex <= 100000,
         INVALID_TILE_DIMENSIONS>>,
       <<h.dtype \in {0, 1, 2, 3}, INVALID_DATA_TYPE>>,
       <<h.compression \in {0, 1, 2}, INVALID_COMPRESSION_TYPE>>,
       <<h.payloadBytes <= 16777216, INVALID_PAYLOAD_SIZE>>,
       <<h.compression = 0 => h.uncompressedBytes = h.payloadBytes,
         UNCOMPRESSED_SIZE_MISMATCH>>,
       <<h.uncompressedBytes = h.tileW * h.tileH * SampleBytes(h.dtype),
         UNCOMPRESSED_SIZE_MISMATCH>>,
       <<len = 24 + h.payloadBytes, PAYLOAD_SIZE_MISMATCH>>,
       <<h.compression # 0 => h.payloadBytes <= h.uncompressedBytes,
         INVALID_PAYLOAD_SIZE>> >>

\* The error kind of the first failing check, "undefined" when none fails.
FirstFailure(checks) ==
    IF \A i \in 1..Len(checks) : checks[i][1]
    THEN "undefined"
    ELSE checks[CHOOSE i \in 1..Len(checks) :
                   /\ ~checks[i][1]
                   /\ \A j \in 1..(i - 1) : checks[j][1]][2]

\* The error kinds the validation sequence can report.
SequenceKinds ==
    {INVALID_MESSAGE_TYPE, INVALID_PLANE_TYPE, INVALID_TILE_DIMENSIONS,
     INVALID_DATA_TYPE, INVALID_COMPRESSION_TYPE, INVALID_PAYLOAD_SIZE,
     UNCOMPRESSED_SIZE_MISMATCH, PAYLOAD_SIZE_MISMATCH}

\* C8: for a buffer of at least 24 bytes parse reports the error kind of the
\* first failing check of the validation sequence (message tag, plane, tile
\* dimensions, coordinates, dtype, compression, payload size limit, the two
\* uncompressed-size equalities, total length, compressed payload size), and
\* accepts the frame when none fails.
C8_FirstFailingCheck ==
    JustDecoded /\ buffer.byteLength >= 24 =>
        /\ result.success \/ result.error \in SequenceKinds
        /\ buffer.byteLength >= HeaderBytesRead =>
              result.error = FirstFailure(ValidationSequence(FieldsOf(buffer),
                                                             buffer.byteLength))

\* C8, for the buffers all of whose header fields can be read (28 bytes or
\* more): the same statement, which the parser does satisfy.
C8_FirstFailingCheckFullHeader ==
    JustDecoded /\ buffer.byteLength >= HeaderBytesRead =>
        result.error = FirstFailure(ValidationSequence(FieldsOf(buffer),
                                                       buffer.byteLength))

\* The checks of the validation sequence that come before the two
\* uncompressed-size equalities all pass.
PassesEarlierChecks(h) ==
    \A i \in 1..7 : ValidationSequence(h, 0)[i][1]

SizeEqualitiesHold(h) ==
    /\ h.uncompressedBytes = h.tileW * h.tileH * SampleBytes(h.dtype)
    /\ h.compression = 0 => h.uncompressedBytes = h.payloadBytes

C10_DecodeTotal ==
    JustDecoded =>
        /\ ~result.threw
        /\ result.success =>
              /\ result.data # NoData
              /\ result.error = "undefined"
              /\ decoded = result.data
        /\ ~result.success =>
              /\ result.error \in ParseErrorKinds
              /\ result.data = NoData
              /\ decoded = Null
        /\ buffer.byteLength >= TILE_HEADER_SIZE
             /\ buffer.byteLength < HeaderBytesRead
             /\ result.error \notin SequenceKinds
           => result.error = CORRUPTED_HEADER

\* C10 witness: a 24-byte buffer whose header is valid as far as it can be
\* read has been rejected with CorruptedHeader and decode returned null.
C10_Witness ==
    /\ JustDecoded
    /\ buffer.byteLength = TILE_HEADER_SIZE
    /\ result.error = CORRUPTED_HEADER
    /\ decoded = Null

\* A buffer of n bytes none of which can be read: reading any byte of it is
\* an error of evaluation.
Unreadable(n) == [byteLength |-> n, bytes |-> <<>>]

C27_TotalLength ==
    JustDecoded =>
        /\ (/\ buffer.byteLength >= 24
            /\ parseHeader(buffer).success
            /\ buffer.byteLength # 24 + parseHeader(buffer).data.payloadBytes)
           => result = Failure(PAYLOAD_SIZE_MISMATCH)
        /\ result.success =>
              /\ result.data.payload.length = result.data.header.payloadBytes
              /\ result.data.payload.offset = 24
              /\ result.data.payload.offset + result.data.payload.length
                    = buffer.byteLength

\* C27 witness: a frame with a valid header and one byte more than the
\* declared payload has been rejected with PayloadSizeMismatch.
C27_Witness ==
    /\ JustDecoded
    /\ parseHeader(buffer).success
    /\ buffer.byteLength = 24 + parseHeader(buffer).data.payloadBytes + 1
    /\ result.error = PAYLOAD_SIZE_MISMATCH

\* C28: round trip.  The buffer made of a valid header, encoded little-endian,
\* and a payload of the declared size is accepted, and the header parse
\* returns is the one that was encoded.
C28_RoundTrip ==
    JustDecoded =>
        /\ result.success
        /\ \E h \in ValidHeaders :
              buffer \in Encodings(h) /\ result.data.header = h

C30_StatsAccounting ==
    [][/\ lastOp'.op = "decode" =>
            /\ getStats'.totalFrames = getStats.totalFrames + 1
            /\ IF result'.success
               THEN /\ getStats'.droppedFrames = getStats.droppedFrames
                    /\ getStats'.lastError = getStats.lastError
               ELSE /\ getStats'.droppedFrames = getStats.droppedFrames + 1
                    /\ getStats'.lastError = result'.error
       /\ 0 <= getStats'.droppedFrames
       /\ getStats'.droppedFrames <= getStats'.totalFrames
      ]_vars

\* C30 witness: a frame was dropped and the next one accepted, which left
\* the drop count and the last error of the first.
C30_Witness ==
    /\ JustDecoded
    /\ frameCount = 2
    /\ droppedFrames = 1
    /\ lastError \in ParseErrorKinds
    /\ result.success

\* ----------------------------------------------- decompression worker claims
\* The request whose compression kind is outside the enum, or whose declared
\* size makes the decompression throw.
FailsToDecompress(request) == decompressSwitch(request).thrown

\* C31: every request the worker has handled got exactly one response, in
\* order, carrying the request's id; a response is either success with the
\* decoded bytes and no error, or failure with an error string and no bytes;
\* an unsupported compression kind or a failing decompression gives a failure
\* response, and no exception has left the message handler.
C31_OneResponsePerRequest ==
    /\ uncaught = 0
    /\ Len(posted) = Len(handled)
    /\ \A i \in 1..Len(posted) :
          /\ i <= Len(handled)
          /\ posted[i].id = handled[i].id
          /\ \/ /\ posted[i].success
                /\ posted[i].data.defined
                /\ posted[i].error = Undefined
             \/ /\ ~posted[i].success
                /\ ~posted[i].data.defined
                /\ posted[i].error # Undefined
          /\ FailsToDecompress(handled[i]) => ~posted[i].success

\* Three requests handled: one decoded, one of an unsupported kind and one
\* whose decompression threw, the last two after initialization.
C31_Witness ==
    /\ Len(posted) = 3
    /\ \E i, j, k \in 1..3 :
          /\ posted[i].success /\ handled[i].compression = CompressionLZ4
          /\ handled[j].compression = 3
          /\ posted[j].error = "Unsupported compression type"
          /\ handled[k].compression = CompressionZstd
          /\ posted[k].error = "Invalid typed array length"

\* ------------------------------------------ AdaptiveQualityController claims
\* Contribution of a signal for which larger is worse, with thresholds
\* first < second < third: 3 at or past the third, 2 past the second, 1 past
\* the first, else 0.
ContributionRising(v, first, second, third) ==
    IF v >= third THEN 3
    ELSE IF v > second THEN 2
    ELSE IF v > first THEN 1
    ELSE 0

\* The same for fps, for which smaller is worse.
ContributionFalling(v, first, second, third) ==
    IF v <= third THEN 3
    ELSE IF v < second THEN 2
    ELSE IF v < first THEN 1
    ELSE 0

\* Four times the arithmetic mean of the four contributions.
ContributionSum(m) ==
    ContributionFalling(m.fps, thresholds.fps.good, thresholds.fps.fair,
                        thresholds.fps.poor)
    + ContributionRising(m.avgFrameTime,
                         thresholds.frameTime.good * FrameTimeUnit,
                         thresholds.frameTime.fair * FrameTimeUnit,
                         thresholds.frameTime.poor * FrameTimeUnit)
    + ContributionRising(m.droppedFrames, thresholds.droppedFrames.acceptable,
                         thresholds.droppedFrames.concerning,
                         thresholds.droppedFrames.critical)
    + ContributionRising(m.uploadLatency, thresholds.uploadLatency.good,
                         thresholds.uploadLatency.fair,
                         thresholds.uploadLatency.poor)

\* Level for a mean of sum / 4: 3 from 2.5, 2 from 1.5, 1 from 0.8, else 0.
LevelOfSum(sum) ==
    IF 10 * sum >= 25 * 4 THEN 3
    ELSE IF 10 * sum >= 15 * 4 THEN 2
    ELSE IF 10 * sum >= 8 * 4 THEN 1
    ELSE 0

\* C32: at every tick the score is the arithmetic mean of the four
\* contributions, a signal exactly at or past its 'poor' threshold
\* contributing 3, and the target level is 3 from 2.5, 2 from 1.5, 1 from 0.8
\* and 0 below; the first tick of a new controller moves it to that level.
C32_ScoreAndTarget ==
    lastOp.op = "evaluatePerformance" =>
        /\ calculatePerformanceScore(metrics).den = 4
        /\ calculatePerformanceScore(metrics).num = ContributionSum(metrics)
        /\ degradationLevel = LevelOfSum(ContributionSum(metrics))

\* C33: whenever the degradation level is 1, 2 or 3, the current settings are
\* the table entry of that level (U16 / 1, U8 / 1, U8 / 2), whatever ticks,
\* setBaselineSettings, forceQuality and resetToBaseline have done.
C33_DegradedSettingsFromTable ==
    degradationLevel \in 1..3 =>
        /\ currentSettings = qualityLevels[degradationLevel]
        /\ currentSettings =
              CASE degradationLevel = 1 -> [dtype |-> DataTypeU16, downsample |-> 1]
                [] degradationLevel = 2 -> [dtype |-> DataTypeU8, downsample |-> 1]
                [] degradationLevel = 3 -> [dtype |-> DataTypeU8, downsample |-> 2]

\* At level 2, after a forced quality and with a baseline just replaced by
\* settings that are in no table entry.
C33_Witness ==
    /\ degradationLevel = 2
    /\ lastOp.op = "setBaselineSettings"
    /\ baselineSettings = [dtype |-> DataTypeU16, downsample |-> 2]
    /\ currentSettings = [dtype |-> DataTypeU8, downsample |-> 1]

\* ------------------------------------------------ DecompressionPool claims
\* The tasks whose promise was rejected for the given reason.
RejectedFor(kind) == {t \in TaskIds : kind \in SeqToSet(outcomes[t])}

\* C34: task conservation: totalTasks is the sum of completedTasks,
\* droppedTasks, the tasks now queued, the tasks now in flight, the tasks
\* rejected by a worker fault and the tasks rejected by disposal.
C34_TaskConservation ==
    stats.totalTasks =
        stats.completedTasks + stats.droppedTasks + Len(taskQueue)
        + Cardinality(pendingTasks) + Cardinality(RejectedFor(WorkerFault))
        + Cardinality(RejectedFor(Disposed))

\* Five tasks submitted: one completed, one dropped at capacity, one rejected
\* by a worker fault, and the queued and the in-flight one rejected by dispose.
C34_Witness ==
    /\ lastOp.op = "dispose"
    /\ stats.totalTasks = 5
    /\ stats.completedTasks = 1
    /\ stats.droppedTasks = 1
    /\ Cardinality(RejectedFor(WorkerFault)) = 1
    /\ Cardinality(RejectedFor(Disposed)) = 2

\* C35: the number of workers marked busy is the number of in-flight tasks,
\* and every worker of the pool that raised no error and has answered every
\* request it was sent is in the idle list and not marked busy.
C35_BusyMatchesInFlight ==
    /\ Cardinality(busyWorkers) = Cardinality(pendingTasks)
    /\ \A w \in workers \ faulted :
          inbox[w] = <<>> => /\ w \in SeqToSet(availableWorkers)
                             /\ w \notin busyWorkers

\* ------------------------------------------ AdaptiveQualityController claims
\* C36: in every state reachable through ticks, updateMetrics,
\* setBaselineSettings, forceQuality and resetToBaseline the degradation
\* level is one of 0, 1, 2, 3 and the steady-state counter is between 0 and
\* 59.
C36_LevelAndCounterRanges ==
    /\ degradationLevel \in 0..3
    /\ steadyStateFrames \in 0..(thresholds.steadyStateFrames - 1)
    /\ steadyStateFrames <= 59

\* The counter at its largest value, one tick before an upgrade from level 3,
\* and a manual operation has just run.
C36_Witness ==
    /\ degradationLevel = 3
    /\ steadyStateFrames = 59
    /\ lastOp.op = "setBaselineSettings"

\* C37: a tick improves the level only after the level has stayed unchanged
\* over the 59 ticks before it: after any change of level no tick within the
\* next 59 upgrades, the 60th being the first that can.
C37_NoUpgradeWithinFiftyNineTicks ==
    [][IsTick /\ degradationLevel' < degradationLevel
         => quietTicks >= thresholds.steadyStateFrames - 1]_vars

\* The tick that upgrades from level 3 has just run, the 60th tick after the
\* degrade to that level.
C37_Witness ==
    /\ lastOp.op = "evaluatePerformance"
    /\ quietTicks = 0
    /\ steadyStateFrames = 0
    /\ degradationLevel = 0
    /\ Len(notified) = 1
    /\ notified[1] = baselineSettings
    /\ emitted # <<>>
    /\ currentSettings = baselineSettings

\* C38: client and server agree: either no quality message has ever been
\* sent and the current settings are the initial F32 with downsample 1, or the
\* dtype and downsample of the message sent last are those of the current
\* settings.
C38_LastMessageMatchesSettings ==
    IF lastSent = NoMessage
    THEN currentSettings = [dtype |-> DataTypeF32, downsample |-> 1]
    ELSE /\ lastSent.dtype = getDataTypeString(currentSettings.dtype)
         /\ lastSent.downsample = currentSettings.downsample

\* resetToBaseline at a degraded level has just sent two messages, and the
\* settings are no longer the initial ones.
C38_Witness ==
    /\ lastOp.op = "resetToBaseline"
    /\ Len(emitted) = 2
    /\ lastSent = [type |-> "quality", dtype |-> "u16", downsample |-> 2]
    /\ currentSettings = [dtype |-> DataTypeU16, downsample |-> 2]

\* C39: each call of forceQuality(s), at any level, sends exactly one quality
\* message and invokes the observer exactly once, both with the forced
\* settings s (the current settings after the call), and nothing else.
C39_ForceQualitySendsOnce ==
    [][lastOp'.op = "forceQuality"
         => /\ emitted' = <<QualityMessage(currentSettings')>>
            /\ notified' = <<currentSettings'>>]_vars

\* ------------------------------------------------------ TileFrameParser claims
\* buf with the bytes that follow its first TILE_HEADER_SIZE bytes, its
\* payload, starting with the bytes head instead.
WithPayloadHead(buf, head) ==
    [byteLength |-> buf.byteLength,
     bytes |-> SubSeq(buf.bytes, 1, Min(Len(buf.bytes), TILE_HEADER_SIZE))
                 \o SubSeq(head, 1, Max(0, Min(buf.byteLength, HeaderBytesRead)
                                            - TILE_HEADER_SIZE))]

\* Payload contents tried against the buffer parsed: zeros, ones, and bytes
\* that spell the length of the payload.
OtherPayloadHeads(buf) ==
    {<<0, 0, 0, 0>>, <<1, 1, 1, 1>>,
     U32LE(Max(0, buf.byteLength - TILE_HEADER_SIZE))}

\* C40: every header field is read from the first 24 bytes, so the payload,
\* the bytes from offset 24 on, has no part in the decision: the buffer just
\* parsed is accepted if and only if the same header followed by any other
\* payload of the same length is.
C40_PayloadNeverDecidesAcceptance ==
    JustDecoded =>
        \A head \in OtherPayloadHeads(buffer) :
            parseResult(WithPayloadHead(buffer, head)).success = result.success
====
